---- MODULE Spec2Model ----
(***************************************************************************)
(* Audio artifact pipeline of the virtual-girlfriend backend:               *)
(*   src/index.js            /chat handler, lipSyncMessage, validators,     *)
(*                           audioFileToBase64, AudioErrorHandler           *)
(*   src/unnamed/part_003    ElevenLabsService (generateAudio, errors)      *)
(*                                                                         *)
(* Seven state machines share the pure operators below:                     *)
(*   Spec      the message loop of POST /chat (keys configured, user text   *)
(*             given), one step per awaited call, several requests in       *)
(*             flight over one audios directory                             *)
(*   SpecSvc   ElevenLabsService.generateAudio applied to drawn inputs      *)
(*   SpecBoot  start-up initialisation of the default artifacts followed    *)
(*             by the canned answers of POST /chat                          *)
(*   SpecWait  waitForFileReady, poll by poll, on a file that changes       *)
(*   SpecFn    audioFileToBase64, normalizeLipsyncMetadata and the          *)
(*             fallback track generators applied to drawn arguments         *)
(*   SpecVoices   ElevenLabsService.validateCredentials and                 *)
(*             getAvailableVoices over the voice cache while time passes    *)
(*   SpecSession  the conversation memory of the session server            *)
(*             (part_003): chat turns, provider failures, deletions         *)
(*   SpecSessionLive  the same memory under one client that keeps           *)
(*             sending messages, with fairness of client and provider       *)
(***************************************************************************)
EXTENDS Integers, Sequences, FiniteSets, TLC

\* ------------------------------------------------------------- bounds
MaxReqs == 2      \* requests in flight at once
MaxMsgs == 1      \* messages in one provider answer
MaxCalls == 3     \* the ghost call counters saturate here
MaxWait == 6      \* maxWaitMs / checkIntervalMs of one waitForFileReady call
MaxSize == 2      \* largest file size the polled file takes
MaxClock == 7     \* minutes the voice cache is watched for
MaxTurns == 12    \* chat turns whose messages are told apart
MaxPending == 1   \* provider calls of the session server in flight at once

\* -------------------------------------------------- program constants
MAX_TEXT_LENGTH == 5000       \* generateAudio text cap
MIN_MP3_SIZE == 128           \* validateMp3FileForProcessing header minimum
MIN_AUDIO_SIZE == 1024        \* validateMp3FileForProcessing minAudioSize
HEADER_BUFFER_SIZE == 4096    \* validateMp3FileForProcessing headerBuffer
SCAN_LIMIT == 1024            \* validateMp3FileForProcessing frame scan
MIN_WAV_SIZE == 100           \* lipSyncMessage minimum WAV size
BYTES_PER_SECOND == 32000     \* createEnhancedFallbackLipSync size heuristic
CUE_INTERVAL_MS == 200        \* createEnhancedFallbackLipSync cueInterval
MS_PER_WORD == 400            \* 150 words per minute = 2.5 words per second
MS_PER_CHAR == 50             \* createFallbackLipSync: text.length * 0.05 s
CACHE_MINUTES == 5            \* ElevenLabsService validationCacheDuration
MAX_MESSAGES_PER_SESSION == 20  \* checkSessionLimits threshold
MAX_CONTEXT_MESSAGES == 15    \* messages addToConversationHistory keeps

Reqs == 1..MaxReqs
MsgIdx == 0..(MaxMsgs - 1)

Min(a, b) == IF a < b THEN a ELSE b
Max(a, b) == IF a > b THEN a ELSE b
Clamp(x, lo, hi) == Max(lo, Min(hi, x))

\* ------------------------------------------------------------- texts
\* A text is kept by what the code reads of it: its length, the number of
\* its non-whitespace characters (trim) and the number of pieces
\* text.split(/\s+/) yields.
TextHello == [len |-> 5, nonWs |-> 5, pieces |-> 1]
TextEmpty == [len |-> 0, nonWs |-> 0, pieces |-> 1]
TextBlank == [len |-> 3, nonWs |-> 0, pieces |-> 2]
TextSentence == [len |-> 52, nonWs |-> 43, pieces |-> 10]
TextAtCap == [len |-> MAX_TEXT_LENGTH, nonWs |-> 4200, pieces |-> 800]
TextOverCap == [len |-> MAX_TEXT_LENGTH + 1, nonWs |-> 4201, pieces |-> 800]
TextBlankOverCap == [len |-> MAX_TEXT_LENGTH + 1, nonWs |-> 0, pieces |-> 2]
Texts == {TextHello, TextEmpty, TextBlank, TextSentence, TextAtCap, TextOverCap,
          TextBlankOverCap}
ChatTexts == {TextHello, TextEmpty, TextOverCap}

\* ------------------------------------------------------------- files
\* src: the request whose processing wrote the content (0: left on disk by
\* an earlier response cycle).  pending: the writer's stream is still open.
AbsentFile == [exists |-> FALSE, size |-> 0, hdr |-> "none", pending |-> FALSE, src |-> 0]
Mp3Full(r) == [exists |-> TRUE, size |-> 64000, hdr |-> "id3", pending |-> FALSE, src |-> r]
Mp3Partial(r) == [exists |-> TRUE, size |-> 100, hdr |-> "id3", pending |-> TRUE, src |-> r]
Mp3Created(r) == [exists |-> TRUE, size |-> 0, hdr |-> "none", pending |-> TRUE, src |-> r]
Mp3Garbage(r) == [exists |-> TRUE, size |-> 2048, hdr |-> "none", pending |-> FALSE, src |-> r]
WavFull(r) == [exists |-> TRUE, size |-> 50000, hdr |-> "riff", pending |-> FALSE, src |-> r]
WavSmall(r) == [exists |-> TRUE, size |-> 44, hdr |-> "riff", pending |-> FALSE, src |-> r]
WavEmpty(r) == [exists |-> TRUE, size |-> 0, hdr |-> "none", pending |-> FALSE, src |-> r]

\* ------------------------------------------------------------ tracks
\* A timing track as the consumer sees it, plus two ghost fields: origin
\* (who built it) and src (the request whose processing built it).
NoTrack ==
  [origin |-> "unset", hasMeta |-> FALSE, ext |-> "none", hasCues |-> FALSE,
   nCues |-> 0, isFallback |-> FALSE, durSrc |-> "none", durMs |-> 0, src |-> 0]

RhubarbTrack(r, meta, cues, n) ==
  [origin |-> "rhubarb", hasMeta |-> meta, ext |-> IF meta THEN "wav" ELSE "none",
   hasCues |-> cues, nCues |-> n, isFallback |-> FALSE, durSrc |-> "none",
   durMs |-> IF meta THEN 2000 ELSE 0, src |-> r]

\* AudioErrorHandler.createFallbackLipSync
createFallbackLipSync(r, text) ==
  [origin |-> "fallback", hasMeta |-> TRUE, ext |-> "mp3", hasCues |-> TRUE,
   nCues |-> 1, isFallback |-> FALSE, durSrc |-> "none",
   durMs |-> Clamp(text.len * MS_PER_CHAR, 1000, 10000), src |-> r]

\* getDefaultLipsync
getDefaultLipsync ==
  [origin |-> "default", hasMeta |-> TRUE, ext |-> "mp3", hasCues |-> TRUE,
   nCues |-> 1, isFallback |-> FALSE, durSrc |-> "none", durMs |-> 1000, src |-> 0]

\* the basic last-resort track of lipSyncMessage
basicFallback(r) ==
  [origin |-> "basic", hasMeta |-> TRUE, ext |-> "mp3", hasCues |-> TRUE,
   nCues |-> 1, isFallback |-> TRUE, durSrc |-> "none", durMs |-> 2000, src |-> r]

\* AudioErrorHandler.validateAudioFile: a file that cannot be stat'ed or
\* accessed is reported as not existing and not readable.
validateAudioFile(f) ==
  [exists |-> f.exists, readable |-> f.exists, size |-> IF f.exists THEN f.size ELSE 0]

\* AudioErrorHandler.createEnhancedFallbackLipSync (mp3 = the hint file,
\* AbsentFile when no hint path is given)
\* Durations are kept exactly, in ticks of 1/32000 s (the duration of one
\* byte in the file-size estimate): units is estimatedDuration, ms the
\* same in whole milliseconds.
TICKS_PER_MS == BYTES_PER_SECOND \div 1000
MinTicks == BYTES_PER_SECOND            \* 1.0 s
MaxTicks == 15 * BYTES_PER_SECOND       \* 15.0 s
CueTicks == CUE_INTERVAL_MS * TICKS_PER_MS

\* a faulty estimate that prefers the text to the hint file
EnhancedDurationTextFirst(text, mp3) ==
  LET st == validateAudioFile(mp3) IN
  IF text.len > 0
    THEN [units |-> Clamp(text.pieces * MS_PER_WORD * TICKS_PER_MS, MinTicks, MaxTicks),
          ms |-> Clamp(text.pieces * MS_PER_WORD * TICKS_PER_MS, MinTicks, MaxTicks) \div TICKS_PER_MS,
          source |-> "text_length_estimation"]
    ELSE IF st.exists /\ st.size > 0
      THEN [units |-> Clamp(st.size, MinTicks, MaxTicks),
            ms |-> Clamp(st.size, MinTicks, MaxTicks) \div TICKS_PER_MS,
            source |-> "file_size_estimation"]
      ELSE [units |-> MinTicks, ms |-> 1000, source |-> "default"]

EnhancedDuration(text, mp3) ==
  LET st == validateAudioFile(mp3) IN
  IF st.exists /\ st.size > 0
    THEN [units |-> Clamp(st.size, MinTicks, MaxTicks),
          ms |-> Clamp(st.size, MinTicks, MaxTicks) \div TICKS_PER_MS,
          source |-> "file_size_estimation"]
    ELSE IF text.len > 0
      THEN [units |-> Clamp(text.pieces * MS_PER_WORD * TICKS_PER_MS, MinTicks, MaxTicks),
            ms |-> Clamp(text.pieces * MS_PER_WORD * TICKS_PER_MS, MinTicks, MaxTicks) \div TICKS_PER_MS,
            source |-> "text_length_estimation"]
      ELSE [units |-> MinTicks, ms |-> 1000, source |-> "default"]

\* parseFloat(x.toFixed(2)), in hundredths of a second, of x ticks
ToFixed2(ticks) == (ticks * 100 + BYTES_PER_SECOND \div 2) \div BYTES_PER_SECOND

\* `time += cueInterval` adds the double 0.2 repeatedly.  For these k the
\* sum of k terms is a double below the double k/5, so that `time <
\* estimatedDuration` still holds when the duration is exactly k/5 s; for
\* every other k up to 75 (15 s) it is not below.
FloatLow == {8, 9, 10, 11} \cup (47..75)

\* the number of passes of the cue loop (2476)
CueCount(ticks) ==
  (ticks + CueTicks - 1) \div CueTicks
    + (IF ticks % CueTicks = 0 /\ (ticks \div CueTicks) \in FloatLow THEN 1 ELSE 0)

\* a faulty loop whose last cue always keeps the full interval
mouthCuesUnclipped(ticks) ==
  [k \in 1..CueCount(ticks) |->
     [start |-> ToFixed2((k - 1) * CueTicks), end |-> ToFixed2(k * CueTicks)]]

\* the cue loop (2476-2484): start and end of every cue, in hundredths
mouthCues(ticks) ==
  [k \in 1..CueCount(ticks) |->
     [start |-> ToFixed2((k - 1) * CueTicks),
      end |-> ToFixed2(Min(k * CueTicks, ticks))]]

createEnhancedFallbackLipSync(r, text, mp3) ==
  LET d == EnhancedDuration(text, mp3) IN
  [origin |-> "enhanced", hasMeta |-> TRUE, ext |-> "mp3", hasCues |-> TRUE,
   nCues |-> CueCount(d.units),
   isFallback |-> TRUE, durSrc |-> d.source, durMs |-> d.ms, src |-> r]

\* AudioErrorHandler.normalizeLipsyncMetadata
normalizeLipsyncMetadata(t) ==
  IF ~t.hasMeta THEN t
  ELSE IF t.ext = "wav" THEN [t EXCEPT !.ext = "mp3"] ELSE t

\* The same on the file name itself.  A name is a sequence of characters.
ToLower(c) ==
  IF c = "W" THEN "w" ELSE IF c = "A" THEN "a" ELSE IF c = "V" THEN "v"
  ELSE IF c = "M" THEN "m" ELSE IF c = "P" THEN "p" ELSE c

Suffix(s, n) == IF Len(s) >= n THEN SubSeq(s, Len(s) - n + 1, Len(s)) ELSE s
Lowered(s) == [i \in 1..Len(s) |-> ToLower(s[i])]

\* a faulty replacement without the i flag
replaceWavSuffixCaseSensitive(s) ==
  IF Len(s) >= 4 /\ Suffix(s, 4) = <<".", "w", "a", "v">>
    THEN SubSeq(s, 1, Len(s) - 4) \o <<".", "m", "p", "3">>
    ELSE s

\* soundFile.replace(/\.wav$/i, '.mp3') (2187)
replaceWavSuffix(s) ==
  IF Len(s) >= 4 /\ Lowered(Suffix(s, 4)) = <<".", "w", "a", "v">>
    THEN SubSeq(s, 1, Len(s) - 4) \o <<".", "m", "p", "3">>
    ELSE s

\* normalizeLipsyncMetadata on a track kept as [hasMeta, soundFile]: a
\* track without metadata, or whose soundFile is missing or "", is
\* returned as it is (2179-2186)
normalizeNamedTrack(t) ==
  IF ~t.hasMeta \/ t.soundFile = <<>> THEN t
  ELSE [t EXCEPT !.soundFile = replaceWavSuffix(@)]

\* The argument of normalizeLipsyncMetadata after the call.  The copy
\* { ...lipsyncData } (2183) is shallow: normalized.metadata and
\* lipsyncData.metadata are one object, kept here as the heap cell meta,
\* and the assignment at 2187 writes that object.
normalizeArgumentAfter(t) ==
  LET heap == [meta |-> t.soundFile]
      written == IF ~t.hasMeta \/ t.soundFile = <<>> THEN heap
                 ELSE [heap EXCEPT !.meta = replaceWavSuffix(@)]
  IN [t EXCEPT !.soundFile = written.meta]

\* A JSON file on disk: absent, empty, not parseable, or a track.
AbsentJson == [exists |-> FALSE, body |-> "none", track |-> NoTrack]
JsonTrack(t) == [exists |-> TRUE, body |-> "track", track |-> t]
JsonEmpty == [exists |-> TRUE, body |-> "empty", track |-> NoTrack]
JsonGarbage == [exists |-> TRUE, body |-> "garbage", track |-> NoTrack]

\* ------------------------------------------------------- validators
\* The head of a file byte by byte: head holds its first bytes, every
\* later byte is fill.  ByteAt is headerBuffer[i].
ByteAt(head, fill, i) == IF i < Len(head) THEN head[i + 1] ELSE fill

\* (b & 0xE0) === 0xE0
SyncBits(b) == b \div 32 = 7

\* the three header patterns, in the order tried (1457-1480): the class
\* of the header found in the first bytesRead bytes, "none" when no
\* pattern matches
HeaderClass(head, fill, bytesRead) ==
  IF bytesRead >= 3 /\ ByteAt(head, fill, 0) = 73 /\ ByteAt(head, fill, 1) = 68
       /\ ByteAt(head, fill, 2) = 51
    THEN "id3"
  ELSE IF bytesRead >= 2 /\ ByteAt(head, fill, 0) = 255 /\ SyncBits(ByteAt(head, fill, 1))
    THEN "frame"
  ELSE IF \E i \in 0..(Min(bytesRead - 1, SCAN_LIMIT) - 1) :
            ByteAt(head, fill, i) = 255 /\ SyncBits(ByteAt(head, fill, i + 1))
    THEN "offset"
  ELSE "none"

\* the header classes hasValidMp3Header accepts
Mp3Headers == {"id3", "frame", "offset"}

\* a faulty validator without the minimum size check before the read
validateMp3FileReadNoMinimum(f, read) ==
  LET v == validateAudioFile(f) IN
  IF ~v.exists THEN [verdict |-> "missing", opened |-> FALSE]
  ELSE IF ~v.readable THEN [verdict |-> "unreadable", opened |-> FALSE]
  ELSE IF v.size = 0 THEN [verdict |-> "empty", opened |-> FALSE]
  ELSE IF read = "throws" THEN [verdict |-> "read_error", opened |-> TRUE]
  ELSE IF read = "zero" THEN [verdict |-> "no_header_read", opened |-> TRUE]
  ELSE IF f.hdr \notin Mp3Headers THEN [verdict |-> "invalid_header", opened |-> TRUE]
  ELSE IF v.size < MIN_AUDIO_SIZE THEN [verdict |-> "no_audio_data", opened |-> TRUE]
  ELSE [verdict |-> "ok", opened |-> TRUE]

\* validateMp3FileForProcessing: "ok" (isValid) or the reason of the
\* rejection, and whether the file was opened for reading.  read is what
\* fs.open and fileHandle.read do: "ok", "zero" (no byte read) or
\* "throws".
validateMp3FileRead(f, read) ==
  LET v == validateAudioFile(f) IN
  IF ~v.exists THEN [verdict |-> "missing", opened |-> FALSE]
  ELSE IF ~v.readable THEN [verdict |-> "unreadable", opened |-> FALSE]
  ELSE IF v.size = 0 THEN [verdict |-> "empty", opened |-> FALSE]
  ELSE IF v.size < MIN_MP3_SIZE THEN [verdict |-> "too_small", opened |-> FALSE]
  ELSE IF read = "throws" THEN [verdict |-> "read_error", opened |-> TRUE]
  ELSE IF read = "zero" THEN [verdict |-> "no_header_read", opened |-> TRUE]
  ELSE IF f.hdr \notin Mp3Headers THEN [verdict |-> "invalid_header", opened |-> TRUE]
  ELSE IF v.size < MIN_AUDIO_SIZE THEN [verdict |-> "no_audio_data", opened |-> TRUE]
  ELSE [verdict |-> "ok", opened |-> TRUE]

\* validateMp3FileForProcessing when the read succeeds
validateMp3FileForProcessing(f) == validateMp3FileRead(f, "ok").verdict

Mp3Valid(f) == validateMp3FileForProcessing(f) = "ok"

\* validateAudioFileForProcessing(fileName, 'mp3') for a .mp3 path
validateAudioFileForProcessing(f) ==
  LET b == validateAudioFile(f) IN
  IF ~b.exists \/ ~b.readable \/ b.size = 0 THEN FALSE ELSE Mp3Valid(f)

\* waitForFileReady as its caller sees it: the answers it can give for a
\* file in state f while nothing else writes the file.
waitForFileReady(f) ==
  IF f.exists /\ f.size > 0 THEN (IF f.pending THEN {TRUE, FALSE} ELSE {TRUE})
  ELSE {FALSE}

\* ensureFileReady: mode is what its first validateAudioFile found, f the
\* file as the wait and the re-validation find it, fileReady the answer of
\* waitForFileReady.
ReadyMode(f) ==
  LET v == validateAudioFile(f) IN
  IF ~v.exists THEN "create"
  ELSE IF ~v.readable THEN "unreadable"
  ELSE IF v.size = 0 THEN "content"
  ELSE "stable"

ensureFileReady(mode, f, fileReady) ==
  LET v == validateAudioFile(f) IN
  IF mode = "create" THEN fileReady /\ v.exists /\ v.readable
  ELSE IF mode = "unreadable" THEN FALSE
  ELSE IF mode = "content" THEN fileReady /\ v.size > 0
  ELSE v.exists /\ v.readable /\ v.size > 0

\* a faulty audioFileToBase64 that skips the MP3 format validation
audioFileToBase64ChecksNoFormat(f, g, isMp3) ==
  LET v == validateAudioFile(f) IN
  IF ~v.exists THEN "ENOENT"
  ELSE IF ~v.readable THEN "EACCES"
  ELSE IF v.size = 0 THEN "EMPTY_FILE"
  ELSE IF \A ok \in waitForFileReady(g) : ~ensureFileReady(ReadyMode(g), g, ok)
    THEN "FILE_NOT_READY"
  ELSE "ok"

\* the checks of audioFileToBase64 (1553-1617): the first one that fails
\* ("" is returned and one error is logged), or "ok".  f is the file as
\* validateAudioFile and validateMp3FileForProcessing find it, g the file
\* as the later ensureFileReady finds it, isMp3 whether the path ends in
\* .mp3.
audioFileToBase64Checks(f, g, isMp3) ==
  LET v == validateAudioFile(f) IN
  IF ~v.exists THEN "ENOENT"
  ELSE IF ~v.readable THEN "EACCES"
  ELSE IF v.size = 0 THEN "EMPTY_FILE"
  ELSE IF isMp3 /\ ~Mp3Valid(f) THEN "INVALID_MP3"
  ELSE IF \A ok \in waitForFileReady(g) : ~ensureFileReady(ReadyMode(g), g, ok)
    THEN "FILE_NOT_READY"
  ELSE "ok"

\* fs.readFile and the conversion after the checks passed (1620-1678):
\* the bytes, no bytes, or an exception, which the catch at 1680 turns
\* into a logged error
audioFileToBase64Outcomes(f, g, isMp3) ==
  IF audioFileToBase64Checks(f, g, isMp3) = "ok"
    THEN {"ok", "NO_DATA_READ", "READ_ERROR"}
    ELSE {audioFileToBase64Checks(f, g, isMp3)}

\* the value audioFileToBase64 returns
audioFileToBase64Return(code) == IF code = "ok" THEN "data" ELSE ""

\* audioFileToBase64 of a .mp3 path that no one writes meanwhile
audioFileToBase64(f) == audioFileToBase64Checks(f, f, TRUE)

\* a faulty readJsonTranscript that returns the parsed file as it is
readJsonTranscriptRaw(jf) ==
  IF jf.exists /\ jf.body = "track"
    THEN [track |-> jf.track, failed |-> FALSE]
    ELSE [track |-> getDefaultLipsync, failed |-> TRUE]

\* readJsonTranscript: the track returned, and whether the read failed
readJsonTranscript(jf) ==
  IF jf.exists /\ jf.body = "track"
    THEN [track |-> normalizeLipsyncMetadata(jf.track), failed |-> FALSE]
    ELSE [track |-> getDefaultLipsync, failed |-> TRUE]

\* ----------------------------------------------- ElevenLabsService
\* An error message of the speech collaborator is kept as the set of the
\* marker substrings handleElevenLabsError looks for.
ErrMarkers == {"401", "404", "429", "402", "network", "500"}

handleElevenLabsError(msg) ==
  IF "401" \in msg THEN "INVALID_API_KEY"
  ELSE IF "404" \in msg THEN "INVALID_VOICE_ID"
  ELSE IF "429" \in msg THEN "RATE_LIMITED"
  ELSE IF "402" \in msg THEN "QUOTA_EXCEEDED"
  ELSE IF "network" \in msg THEN "NETWORK_ERROR"
  ELSE IF "500" \in msg THEN "SERVER_ERROR"
  ELSE "UNKNOWN_ERROR"

\* the retryable field of the result handleElevenLabsError builds for a
\* code: true in the RATE_LIMITED, NETWORK_ERROR and SERVER_ERROR
\* results, absent (FALSE here) in every other result
handleElevenLabsErrorRetryable(code) ==
  code \in {"RATE_LIMITED", "NETWORK_ERROR", "SERVER_ERROR"}

\* AudioErrorHandler.isRetryableError
isRetryableError(errorCode) ==
  errorCode \in {"RATE_LIMITED", "NETWORK_ERROR", "TIMEOUT_ERROR"}

\* a faulty severity table that files the warnings under "error"
getErrorSeverityNoWarning(errorCode) ==
  IF errorCode \in {"INVALID_API_KEY", "QUOTA_EXCEEDED", "MISSING_API_KEY"} THEN "critical"
  ELSE "error"

\* AudioErrorHandler.getErrorSeverity
getErrorSeverity(errorCode) ==
  IF errorCode \in {"INVALID_API_KEY", "QUOTA_EXCEEDED", "MISSING_API_KEY"} THEN "critical"
  ELSE IF errorCode \in {"RATE_LIMITED", "NETWORK_ERROR", "SERVER_ERROR"} THEN "warning"
  ELSE "error"

\* a || b on strings, "" standing for an absent field as well
OrElse(a, b) == IF a # "" THEN a ELSE b

\* AudioErrorHandler.logAudioError: the severity, code and retryable
\* fields of the log entry.  error = [errorCode, code, retryable].
logEntry(error) ==
  LET c == OrElse(error.errorCode, error.code) IN
  [severity |-> getErrorSeverity(c), code |-> c,
   retryable |-> error.retryable \/ isRetryableError(c)]

\* context.text.substring(0, 100), quoted, with '...' after a longer text
\* (2077): the number of characters of the source text it holds
TEXT_LOG_LIMIT == 100
truncatedText(len) ==
  [chars |-> Min(len, TEXT_LOG_LIMIT), ellipsis |-> len > TEXT_LOG_LIMIT, quoted |-> TRUE]

\* the text property of the context object of the log entry (2075-2085):
\* the literal sets text to the truncated text, or to undefined for a
\* missing or empty text, and the trailing ...context then sets every
\* property context has, text included.  len = -1: context has no text.
logContextText(len) ==
  LET literal == IF len > 0 THEN truncatedText(len)
                 ELSE [chars |-> 0, ellipsis |-> FALSE, quoted |-> FALSE]
      spread == [chars |-> len, ellipsis |-> FALSE, quoted |-> FALSE]
  IN IF len >= 0 THEN spread ELSE literal

\* a faulty precondition check without the length cap
generateAudioPreconditionNoCap(apiKey, voiceId, text) ==
  IF ~apiKey THEN "MISSING_API_KEY"
  ELSE IF ~voiceId THEN "MISSING_VOICE_ID"
  ELSE IF text.len = 0 \/ text.nonWs = 0 THEN "EMPTY_TEXT"
  ELSE ""

\* generateAudio, the preconditions: "" when all hold
generateAudioPrecondition(apiKey, voiceId, text) ==
  IF ~apiKey THEN "MISSING_API_KEY"
  ELSE IF ~voiceId THEN "MISSING_VOICE_ID"
  ELSE IF text.len = 0 \/ text.nonWs = 0 THEN "EMPTY_TEXT"
  ELSE IF text.len > MAX_TEXT_LENGTH THEN "TEXT_TOO_LONG"
  ELSE ""

\* What the collaborator (voice.textToSpeech) can do with the output path.
CollabThrows == {[t |-> "throw", msg |-> m] : m \in {{}, {"401"}, {"404"}, {"429"}}}
CollabWrites == {[t |-> "ok", w |-> w] : w \in {"full", "partial", "created", "garbage", "nothing"}}

CollabFile(out, r, old) ==
  IF out.t = "throw" THEN old
  ELSE IF out.w = "full" THEN Mp3Full(r)
  ELSE IF out.w = "partial" THEN Mp3Partial(r)
  ELSE IF out.w = "created" THEN Mp3Created(r)
  ELSE IF out.w = "garbage" THEN Mp3Garbage(r)
  ELSE old

\* a faulty verification that accepts any file that exists
generateAudioVerifyNoSize(out, file) ==
  IF out.t = "throw" THEN handleElevenLabsError(out.msg)
  ELSE IF ~file.exists THEN "FILE_VERIFICATION_FAILED"
  ELSE "success"

\* generateAudio after the collaborator returned or threw; file = the
\* output path as the following fs.stat finds it
generateAudioVerify(out, file) ==
  IF out.t = "throw" THEN handleElevenLabsError(out.msg)
  ELSE IF ~file.exists THEN "FILE_VERIFICATION_FAILED"
  ELSE IF file.size = 0 THEN "EMPTY_AUDIO_FILE"
  ELSE "success"


\* =====================================================================
\* POST /chat, the message loop (index.js 847-1100)
\* =====================================================================
VARIABLES
  pc,      \* per request: the awaited call the handler is at
  msgs,    \* per request: the messages of the provider answer
  idx,     \* per request: the loop variable i
  ret,     \* per request: the call site lipSyncMessage returns to
  rdy,     \* per request: what ensureFileReady's first validation found
  hung,    \* per request: awaiting an external process that never exits
  resp,    \* per request: the HTTP answer sent
  mp3,     \* message_<i>.mp3
  wav,     \* message_<i>.wav
  json     \* message_<i>.json

pipeVars == <<pc, msgs, idx, ret, rdy, hung, resp, mp3, wav, json>>

\* generateAudio on drawn inputs
VARIABLES
  svcPc,     \* "start", "called" (the collaborator returned or threw), "done"
  svcKey,    \* this.apiKey is set
  svcVoice,  \* this.voiceId is set
  svcText,   \* the text argument
  svcFile,   \* the file at outputPath
  svcOut,    \* what the collaborator did
  svcCalls,  \* calls of voice.textToSpeech made
  svcSent,   \* length of the text handed to the collaborator (-1: none)
  svcRes     \* "success" or the errorCode returned ("": not returned yet)

svcVars == <<svcPc, svcKey, svcVoice, svcText, svcFile, svcOut, svcCalls, svcSent, svcRes>>

\* start-up initialisation and the canned answers
VARIABLES
  bootKey,   \* elevenLabsApiKey is set
  bootPc,    \* the default message initializeDefaultAudios is at (NDefaults + 1: finished)
  dwav,      \* <file>.wav of every default message
  djson,     \* <file>.json of every default message
  cresp      \* the canned answers sent so far, oldest first

bootVars == <<bootKey, bootPc, dwav, djson, cresp>>

\* waitForFileReady polling one path while the file changes
VARIABLES
  wPc,       \* "polling" or "done"
  wFile,     \* the file at filePath: -1 when missing, else its size
  wTime,     \* Date.now() - startTime, in units of checkIntervalMs
  wLast,     \* lastSize
  wStable,   \* stableCount
  wHist,     \* what every poll so far observed, oldest first
  wRes       \* the value returned ("none": not returned yet)

waitVars == <<wPc, wFile, wTime, wLast, wStable, wHist, wRes>>

\* the pure functions applied to drawn arguments
VARIABLES
  fnIn,      \* the arguments
  fnOut      \* the function applied and its result

fnVars == <<fnIn, fnOut>>

\* the voice cache of ElevenLabsService
VARIABLES
  voiceSvc,  \* apiKey, isValidated, availableVoices, lastValidationTime, and the clock
  voiceOut   \* the last call: the service before it, what the API did, the result

voiceVars == <<voiceSvc, voiceOut>>

\* the conversation memory of the session server
VARIABLES
  sessHist,    \* conversationHistory: session id -> messages
  sessTurn,    \* number of the last chat turn started
  sessPending, \* the turns awaiting the text provider
  sessOut      \* the last step: the list sent to the provider, or the answer

sessVars == <<sessHist, sessTurn, sessPending, sessOut>>

vars == <<pipeVars, svcVars, bootVars, waitVars, fnVars, voiceVars, sessVars>>

\* what each machine leaves alone
notPipe == <<svcVars, bootVars, waitVars, fnVars, voiceVars, sessVars>>
notSvc == <<pipeVars, bootVars, waitVars, fnVars, voiceVars, sessVars>>
notBoot == <<pipeVars, svcVars, waitVars, fnVars, voiceVars, sessVars>>
notWait == <<pipeVars, svcVars, bootVars, fnVars, voiceVars, sessVars>>
notFn == <<pipeVars, svcVars, bootVars, waitVars, voiceVars, sessVars>>
notVoice == <<pipeVars, svcVars, bootVars, waitVars, fnVars, sessVars>>
notSess == <<pipeVars, svcVars, bootVars, waitVars, fnVars, voiceVars>>

\* A message of the answer: the payload fields the handler sets, and two
\* ghost fields: logs (the operation of every logAudioError call made while
\* the message was processed) and fails (the stages that failed).
\* calls counts, per stage, the invocations of the speech collaborator,
\* of the FFmpeg conversion, of the Rhubarb extraction and of
\* audioFileToBase64 made for the message; vals lists the results of the
\* handler's own validateMp3FileForProcessing calls (906, 973).
NoCalls == [synth |-> 0, ffmpeg |-> 0, rhubarb |-> 0, encode |-> 0]

NewMsg(text) ==
  [text |-> text, audio |-> "unset", asrc |-> 0, mime |-> "unset",
   lipsync |-> NoTrack, logs |-> <<>>, fails |-> <<>>,
   calls |-> NoCalls, vals |-> <<>>]

MsgLists == UNION {[1..n -> {NewMsg(t) : t \in ChatTexts}] : n \in 0..MaxMsgs}

Cur(r) == msgs[r][idx[r] + 1]
Mp3Of(r) == mp3[idx[r]]
WavOf(r) == wav[idx[r]]
JsonOf(r) == json[idx[r]]

\* AudioErrorHandler.logAudioError, as the record it appends
logAudioError(m, op) == [m EXCEPT !.logs = Append(@, op)]
StageFailed(m, stage) == [m EXCEPT !.fails = Append(@, stage)]
Called(m, stage) == [m EXCEPT !.calls[stage] = Min(@ + 1, MaxCalls)]
Validated(m, ok) == [m EXCEPT !.vals = IF Len(@) < MaxCalls THEN Append(@, ok) ELSE @]

\* a faulty createFallbackAudio whose track is dropped by the handler
createFallbackAudioNoTrack(r, m) == [m EXCEPT !.audio = "empty", !.asrc = 0]

\* AudioErrorHandler.createFallbackAudio and the two assignments that
\* follow every call of it in the handler (audio and lipsync only)
createFallbackAudio(r, m) ==
  [m EXCEPT !.audio = "empty", !.asrc = 0,
            !.lipsync = createFallbackLipSync(r, m.text)]

Goto(r, l) == pc' = [pc EXCEPT ![r] = l]
SetMsg(r, m) == msgs' = [msgs EXCEPT ![r][idx[r] + 1] = m]

\* end of one loop iteration: the next message, or res.send({messages})
Finish(r, m) ==
  /\ SetMsg(r, m)
  /\ IF idx[r] + 1 >= Len(msgs[r])
       THEN /\ Goto(r, "done")
            /\ resp' = [resp EXCEPT ![r] = "ok"]
            /\ idx' = idx
       ELSE /\ Goto(r, "gen")
            /\ idx' = [idx EXCEPT ![r] = @ + 1]
            /\ resp' = resp

At(r, l) == pc[r] = l /\ ~hung[r]
Hang(r) == hung' = [hung EXCEPT ![r] = TRUE] /\ UNCHANGED <<pc, msgs, idx, ret, rdy, resp, mp3, wav, json>>

PipeInit ==
  /\ pc = [r \in Reqs |-> "idle"]
  /\ msgs = [r \in Reqs |-> <<>>]
  /\ idx = [r \in Reqs |-> 0]
  /\ ret = [r \in Reqs |-> "main"]
  /\ rdy = [r \in Reqs |-> "stable"]
  /\ hung = [r \in Reqs |-> FALSE]
  /\ resp = [r \in Reqs |-> "none"]
  /\ \E stale \in BOOLEAN :
       /\ mp3 = [i \in MsgIdx |-> IF stale THEN Mp3Full(0) ELSE AbsentFile]
       /\ wav = [i \in MsgIdx |-> IF stale THEN WavFull(0) ELSE AbsentFile]
       /\ json = [i \in MsgIdx |->
                   IF stale THEN JsonTrack(normalizeLipsyncMetadata(RhubarbTrack(0, TRUE, TRUE, 3)))
                   ELSE AbsentJson]

\* the provider call (callOpenAI ...) and the start of the loop
ChatProvider(r) ==
  /\ At(r, "idle")
  /\ \/ /\ Goto(r, "done")                     \* the provider call threw
        /\ resp' = [resp EXCEPT ![r] = "error500"]
        /\ UNCHANGED <<msgs, idx>>
     \/ \E ms \in MsgLists :
          /\ msgs' = [msgs EXCEPT ![r] = ms]
          /\ idx' = [idx EXCEPT ![r] = 0]
          /\ IF Len(ms) = 0
               THEN Goto(r, "done") /\ resp' = [resp EXCEPT ![r] = "ok"]
               ELSE Goto(r, "gen") /\ resp' = resp
  /\ UNCHANGED <<ret, rdy, hung, mp3, wav, json>>
  /\ UNCHANGED notPipe

\* elevenLabsService.generateAudio(textInput, fileName) and the branch on
\* audioResult.success (index.js 878-880, 1026-1064)
GenerateAudio(r) ==
  /\ At(r, "gen")
  /\ LET pre == generateAudioPrecondition(TRUE, TRUE, Cur(r).text) IN
     \E out \in CollabThrows \cup CollabWrites :
       LET file == IF pre = "" THEN CollabFile(out, r, Mp3Of(r)) ELSE Mp3Of(r)
           code == IF pre = "" THEN generateAudioVerify(out, file) ELSE pre
           m == IF pre = "" THEN Called(Cur(r), "synth") ELSE Cur(r)
       IN /\ mp3' = [mp3 EXCEPT ![idx[r]] = file]
          /\ IF code = "success"
               THEN Goto(r, "ready") /\ SetMsg(r, m) /\ UNCHANGED <<idx, resp>>
               ELSE Finish(r, createFallbackAudio(r,
                      logAudioError(StageFailed(m, "synthesis"), "audio_generation")))
  /\ UNCHANGED <<ret, rdy, hung, wav, json>>
  /\ UNCHANGED notPipe

\* ensureFileReady(fileName): its first validation
EnsureReadyFirst(r) ==
  /\ At(r, "ready")
  /\ rdy' = [rdy EXCEPT ![r] = ReadyMode(Mp3Of(r))]
  /\ Goto(r, "ready_wait")
  /\ UNCHANGED <<msgs, idx, ret, hung, resp, mp3, wav, json>>
  /\ UNCHANGED notPipe

\* ensureFileReady(fileName): the wait, the re-validation, and the branch
\* on fileReadiness.success (index.js 886-901)
EnsureReadyWait(r) ==
  /\ At(r, "ready_wait")
  /\ \E fileReady \in waitForFileReady(Mp3Of(r)) :
       IF ensureFileReady(rdy[r], Mp3Of(r), fileReady)
         THEN Goto(r, "val1") /\ UNCHANGED <<msgs, idx, resp>>
         ELSE Finish(r, createFallbackAudio(r,
                logAudioError(StageFailed(Cur(r), "readiness"), "mp3_file_readiness_check")))
  /\ UNCHANGED <<ret, rdy, hung, mp3, wav, json>>
  /\ UNCHANGED notPipe

\* validateMp3FileForProcessing(fileName) (index.js 906-908, 967-973)
ValidateFirst(r) ==
  /\ At(r, "val1")
  /\ IF Mp3Valid(Mp3Of(r))
       THEN Goto(r, "ls_val") /\ ret' = [ret EXCEPT ![r] = "main"]
       ELSE Goto(r, "r_val") /\ ret' = ret
  /\ SetMsg(r, Validated(Cur(r), Mp3Valid(Mp3Of(r))))
  /\ UNCHANGED <<idx, rdy, hung, resp, mp3, wav, json>>
  /\ UNCHANGED notPipe


\* ---------------------------------------------------------------------
\* lipSyncMessage(i, textInput) (index.js 419-623)
\* ---------------------------------------------------------------------
\* a throw inside the FFmpeg try block: logged once there (476-494)
LsThrowFFmpeg(r) ==
  /\ SetMsg(r, logAudioError(StageFailed(Cur(r), "transcode"), "ffmpeg_mp3_to_wav_conversion"))
  /\ Goto(r, "ls_fb")

\* a throw inside the Rhubarb try block: logged once there (558-576)
LsThrowRhubarb(r) ==
  /\ SetMsg(r, logAudioError(StageFailed(Cur(r), "extraction"), "rhubarb_lip_sync_generation"))
  /\ Goto(r, "ls_fb")

\* lipSyncMessage returns normally to its call site
LsReturn(r) == Goto(r, IF ret[r] = "main" THEN "preconv" ELSE "r_readjson")

\* validateMp3FileForProcessing(inputPath) (430-433)
LsValidateMp3(r) ==
  /\ At(r, "ls_val")
  /\ IF Mp3Valid(Mp3Of(r))
       THEN Goto(r, "ls_ffprobe") /\ msgs' = msgs
       ELSE Goto(r, "ls_fb") /\ SetMsg(r, StageFailed(Cur(r), "validation"))
  /\ UNCHANGED <<idx, ret, rdy, hung, resp, mp3, wav, json>>
  /\ UNCHANGED notPipe

\* audioErrorHandler.validateFFmpegAvailability(): exec('ffmpeg -version')
LsFFmpegProbe(r) ==
  /\ At(r, "ls_ffprobe")
  /\ \/ Goto(r, "ls_ffmpeg") /\ UNCHANGED <<msgs, idx, ret, rdy, hung, resp, mp3, wav, json>>
     \/ LsThrowFFmpeg(r) /\ UNCHANGED <<idx, ret, rdy, hung, resp, mp3, wav, json>>
     \/ Hang(r)
  /\ UNCHANGED notPipe

\* execCommand(ffmpegCommand): the tool exits with an error, exits with
\* success leaving some output file, or never exits
FFmpegWrites == {"full", "small", "empty", "nothing"}

FFmpegFile(w, in, old) ==
  IF w = "full" THEN WavFull(in.src)
  ELSE IF w = "small" THEN WavSmall(in.src)
  ELSE IF w = "empty" THEN WavEmpty(in.src)
  ELSE old

LsFFmpeg(r) ==
  /\ At(r, "ls_ffmpeg")
  /\ \/ \E w \in FFmpegWrites :
          /\ wav' = [wav EXCEPT ![idx[r]] = FFmpegFile(w, Mp3Of(r), WavOf(r))]
          /\ Goto(r, "ls_wavval")
          /\ SetMsg(r, Called(Cur(r), "ffmpeg"))
          /\ UNCHANGED <<idx, ret, rdy, hung, resp, mp3, json>>
     \/ /\ SetMsg(r, logAudioError(StageFailed(Called(Cur(r), "ffmpeg"), "transcode"),
                                   "ffmpeg_mp3_to_wav_conversion"))
        /\ Goto(r, "ls_fb")
        /\ UNCHANGED <<idx, ret, rdy, hung, resp, mp3, wav, json>>
     \/ /\ hung' = [hung EXCEPT ![r] = TRUE]
        /\ SetMsg(r, Called(Cur(r), "ffmpeg"))
        /\ UNCHANGED <<pc, idx, ret, rdy, resp, mp3, wav, json>>
  /\ UNCHANGED notPipe

\* a faulty validation of the conversion's output without the minimum size
LsValidateWavNoMinimum(r) ==
  /\ At(r, "ls_wavval")
  /\ LET v == validateAudioFile(WavOf(r)) IN
     IF ~v.exists \/ ~v.readable \/ v.size = 0
       THEN LsThrowFFmpeg(r)
       ELSE Goto(r, "ls_rhprobe") /\ msgs' = msgs
  /\ UNCHANGED <<idx, ret, rdy, hung, resp, mp3, wav, json>>
  /\ UNCHANGED notPipe

\* validateAudioFile(outputPath) after the conversion (455-474)
LsValidateWav(r) ==
  /\ At(r, "ls_wavval")
  /\ LET v == validateAudioFile(WavOf(r)) IN
     IF ~v.exists \/ ~v.readable \/ v.size = 0 \/ v.size < MIN_WAV_SIZE
       THEN LsThrowFFmpeg(r)
       ELSE Goto(r, "ls_rhprobe") /\ msgs' = msgs
  /\ UNCHANGED <<idx, ret, rdy, hung, resp, mp3, wav, json>>
  /\ UNCHANGED notPipe

\* audioErrorHandler.validateRhubarbAvailability(rhubarbPath)
LsRhubarbProbe(r) ==
  /\ At(r, "ls_rhprobe")
  /\ \/ Goto(r, "ls_prerh") /\ UNCHANGED <<msgs, idx, ret, rdy, hung, resp, mp3, wav, json>>
     \/ LsThrowRhubarb(r) /\ UNCHANGED <<idx, ret, rdy, hung, resp, mp3, wav, json>>
     \/ Hang(r)
  /\ UNCHANGED notPipe

\* the WAV double-check before Rhubarb (512-515)
LsPreRhubarb(r) ==
  /\ At(r, "ls_prerh")
  /\ LET v == validateAudioFile(WavOf(r)) IN
     IF ~v.exists \/ ~v.readable \/ v.size = 0
       THEN LsThrowRhubarb(r)
       ELSE Goto(r, "ls_rhubarb") /\ msgs' = msgs
  /\ UNCHANGED <<idx, ret, rdy, hung, resp, mp3, wav, json>>
  /\ UNCHANGED notPipe

\* execCommand(rhubarbCommand): what the tool leaves at jsonPath when it
\* exits with success
RhubarbWrites == {"good", "emptycues", "nocues", "nometa", "garbage", "empty", "nothing"}

RhubarbFile(w, in, old) ==
  IF w = "good" THEN JsonTrack(RhubarbTrack(in.src, TRUE, TRUE, 3))
  ELSE IF w = "emptycues" THEN JsonTrack(RhubarbTrack(in.src, TRUE, TRUE, 0))
  ELSE IF w = "nocues" THEN JsonTrack(RhubarbTrack(in.src, TRUE, FALSE, 0))
  ELSE IF w = "nometa" THEN JsonTrack(RhubarbTrack(in.src, FALSE, TRUE, 3))
  ELSE IF w = "garbage" THEN JsonGarbage
  ELSE IF w = "empty" THEN JsonEmpty
  ELSE old

LsRhubarb(r) ==
  /\ At(r, "ls_rhubarb")
  /\ \/ \E w \in RhubarbWrites :
          /\ json' = [json EXCEPT ![idx[r]] = RhubarbFile(w, WavOf(r), JsonOf(r))]
          /\ Goto(r, "ls_jsonval")
          /\ SetMsg(r, Called(Cur(r), "rhubarb"))
          /\ UNCHANGED <<idx, ret, rdy, hung, resp, mp3, wav>>
     \/ /\ SetMsg(r, logAudioError(StageFailed(Called(Cur(r), "rhubarb"), "extraction"),
                                   "rhubarb_lip_sync_generation"))
        /\ Goto(r, "ls_fb")
        /\ UNCHANGED <<idx, ret, rdy, hung, resp, mp3, wav, json>>
     \/ /\ hung' = [hung EXCEPT ![r] = TRUE]
        /\ SetMsg(r, Called(Cur(r), "rhubarb"))
        /\ UNCHANGED <<pc, idx, ret, rdy, resp, mp3, wav, json>>
  /\ UNCHANGED notPipe

\* validateAudioFile(jsonPath) after the extraction (524-535)
LsValidateJson(r) ==
  /\ At(r, "ls_jsonval")
  /\ IF ~JsonOf(r).exists \/ JsonOf(r).body = "empty"
       THEN LsThrowRhubarb(r)
       ELSE Goto(r, "ls_jsonnorm") /\ msgs' = msgs
  /\ UNCHANGED <<idx, ret, rdy, hung, resp, mp3, wav, json>>
  /\ UNCHANGED notPipe

\* the structure check of the parsed track (542-544)
lipsyncStructureOk(t) == t.hasMeta /\ t.hasCues

\* readFile, JSON.parse, the structure check, normalisation and the
\* write-back (538-556); the write may fail
LsNormalizeJson(r) ==
  /\ At(r, "ls_jsonnorm")
  /\ IF JsonOf(r).body = "track" /\ lipsyncStructureOk(JsonOf(r).track)
       THEN \/ /\ json' = [json EXCEPT ![idx[r]] = JsonTrack(normalizeLipsyncMetadata(JsonOf(r).track))]
               /\ LsReturn(r)
               /\ msgs' = msgs
            \/ LsThrowRhubarb(r) /\ json' = json
       ELSE LsThrowRhubarb(r) /\ json' = json
  /\ UNCHANGED <<idx, ret, rdy, hung, resp, mp3, wav>>
  /\ UNCHANGED notPipe

\* the outer catch (579-622): the enhanced fallback track is written, or
\* the basic one when that fails, or nothing when both writes fail; then
\* the error is re-thrown to the call site.  At the retry call site the
\* catch (994-996) only sets the fallback track.
LsFallback(r) ==
  /\ At(r, "ls_fb")
  /\ \E t \in {createEnhancedFallbackLipSync(r, Cur(r).text, Mp3Of(r)), basicFallback(r), NoTrack} :
       json' = [json EXCEPT ![idx[r]] = IF t = NoTrack THEN @ ELSE JsonTrack(t)]
  /\ IF ret[r] = "main"
       THEN Goto(r, "c_preconv") /\ UNCHANGED <<msgs, idx, resp>>
       ELSE Finish(r, [Cur(r) EXCEPT !.lipsync = createFallbackLipSync(r, Cur(r).text)])
  /\ UNCHANGED <<ret, rdy, hung, mp3, wav>>
  /\ UNCHANGED notPipe


\* ---------------------------------------------------------------------
\* POST /chat: after lipSyncMessage (index.js 915-1024)
\* ---------------------------------------------------------------------
\* audioFileToBase64 as its caller sees it: the checks, then fs.readFile
\* and the conversion, which may fail on a file that passed the checks
EncodeOutcomes(f) == audioFileToBase64Outcomes(f, f, TRUE)

\* a faulty hand-over that loses the encoded bytes
EncodedEmpty(m, f) == [Called(m, "encode") EXCEPT !.audio = "empty", !.asrc = 0]

Encoded(m, f) == [Called(m, "encode") EXCEPT !.audio = "data", !.asrc = f.src]
EncodeFailed(m) ==
  logAudioError(StageFailed(Called(m, "encode"), "encoding"), "audio_file_to_base64")

\* validateAudioFileForProcessing(fileName, 'mp3') (916-919)
PreConv(r) ==
  /\ At(r, "preconv")
  /\ IF validateAudioFileForProcessing(Mp3Of(r))
       THEN Goto(r, "encode") /\ msgs' = msgs
       ELSE Goto(r, "c_preconv") /\ SetMsg(r, StageFailed(Cur(r), "validation"))
  /\ UNCHANGED <<idx, ret, rdy, hung, resp, mp3, wav, json>>
  /\ UNCHANGED notPipe

\* audioFileToBase64(fileName) and message.audio = audioBase64 (921-926)
Encode(r) ==
  /\ At(r, "encode")
  /\ \E o \in EncodeOutcomes(Mp3Of(r)) :
       IF o = "ok"
         THEN Goto(r, "readjson") /\ SetMsg(r, Encoded(Cur(r), Mp3Of(r)))
         ELSE Goto(r, "c_preconv") /\ SetMsg(r, EncodeFailed(Cur(r)))
  /\ UNCHANGED <<idx, ret, rdy, hung, resp, mp3, wav, json>>
  /\ UNCHANGED notPipe

\* a faulty hand-over that reads the track and drops the audio set before
WithTranscriptDropsAudio(m, jf) ==
  [m EXCEPT !.lipsync = readJsonTranscript(jf).track, !.audio = "empty", !.asrc = 0]

\* message.lipsync = await readJsonTranscript(...) and audioMime (927-930)
WithTranscript(m, jf) ==
  LET rj == readJsonTranscript(jf)
      m1 == [m EXCEPT !.lipsync = rj.track]
  IN IF rj.failed
       THEN logAudioError(StageFailed(m1, "transcript"), "read_lipsync_transcript")
       ELSE m1

ReadJson(r) ==
  /\ At(r, "readjson")
  /\ Finish(r, [WithTranscript(Cur(r), JsonOf(r)) EXCEPT !.mime = "audio/mpeg"])
  /\ UNCHANGED <<ret, rdy, hung, mp3, wav, json>>
  /\ UNCHANGED notPipe

\* the lipSyncError branch: re-validation (937-938, 950-956) and the log
\* of the caught error (958-965)
CatchPreConv(r) ==
  /\ At(r, "c_preconv")
  /\ IF validateAudioFileForProcessing(Mp3Of(r))
       THEN Goto(r, "c_encode") /\ UNCHANGED <<msgs, idx, resp>>
       ELSE Finish(r, logAudioError(
              createFallbackAudio(r, StageFailed(Cur(r), "validation")),
              "lip_sync_generation"))
  /\ UNCHANGED <<ret, rdy, hung, mp3, wav, json>>
  /\ UNCHANGED notPipe

\* the lipSyncError branch: encoding (939-949) and the log (958-965)
CatchEncode(r) ==
  /\ At(r, "c_encode")
  /\ \E o \in EncodeOutcomes(Mp3Of(r)) :
       LET m == IF o = "ok"
                  THEN [Encoded(Cur(r), Mp3Of(r)) EXCEPT
                          !.mime = "audio/mpeg",
                          !.lipsync = createFallbackLipSync(r, Cur(r).text)]
                  ELSE createFallbackAudio(r, EncodeFailed(Cur(r)))
       IN Finish(r, logAudioError(m, "lip_sync_generation"))
  /\ UNCHANGED <<ret, rdy, hung, mp3, wav, json>>
  /\ UNCHANGED notPipe

\* a faulty retry that keeps re-validating while the file is invalid
RetryValidateForever(r) ==
  /\ At(r, "r_val")
  /\ SetMsg(r, Validated(Cur(r), Mp3Valid(Mp3Of(r))))
  /\ Goto(r, IF Mp3Valid(Mp3Of(r)) THEN "r_preconv" ELSE "r_val")
  /\ UNCHANGED <<idx, resp>>
  /\ UNCHANGED <<ret, rdy, hung, mp3, wav, json>>
  /\ UNCHANGED notPipe

\* the retry of validateMp3FileForProcessing after 500 ms (972-975,
\* 1008-1024)
RetryValidate(r) ==
  /\ At(r, "r_val")
  /\ IF Mp3Valid(Mp3Of(r))
       THEN /\ Goto(r, "r_preconv")
            /\ SetMsg(r, Validated(Cur(r), TRUE))
            /\ UNCHANGED <<idx, resp>>
       ELSE Finish(r, createFallbackAudio(r,
              logAudioError(StageFailed(Validated(Cur(r), FALSE), "validation"),
                            "mp3_file_validation")))
  /\ UNCHANGED <<ret, rdy, hung, mp3, wav, json>>
  /\ UNCHANGED notPipe

\* validateAudioFileForProcessing on the retry path (980-983, 1002-1007)
RetryPreConv(r) ==
  /\ At(r, "r_preconv")
  /\ IF validateAudioFileForProcessing(Mp3Of(r))
       THEN Goto(r, "r_encode") /\ UNCHANGED <<msgs, idx, resp>>
       ELSE Finish(r, createFallbackAudio(r, StageFailed(Cur(r), "validation")))
  /\ UNCHANGED <<ret, rdy, hung, mp3, wav, json>>
  /\ UNCHANGED notPipe

\* audioFileToBase64 on the retry path (985-988, 999-1007); on success
\* lipSyncMessage is called next (992)
RetryEncode(r) ==
  /\ At(r, "r_encode")
  /\ \E o \in EncodeOutcomes(Mp3Of(r)) :
       IF o = "ok"
         THEN /\ SetMsg(r, [Encoded(Cur(r), Mp3Of(r)) EXCEPT !.mime = "audio/mpeg"])
              /\ Goto(r, "ls_val")
              /\ ret' = [ret EXCEPT ![r] = "retry"]
              /\ UNCHANGED <<idx, resp>>
         ELSE /\ Finish(r, createFallbackAudio(r, EncodeFailed(Cur(r))))
              /\ ret' = ret
  /\ UNCHANGED <<rdy, hung, mp3, wav, json>>
  /\ UNCHANGED notPipe

\* message.lipsync = await readJsonTranscript(...) on the retry path (993)
RetryReadJson(r) ==
  /\ At(r, "r_readjson")
  /\ Finish(r, WithTranscript(Cur(r), JsonOf(r)))
  /\ UNCHANGED <<ret, rdy, hung, mp3, wav, json>>
  /\ UNCHANGED notPipe

\* the collaborator's stream finishes writing a file it left incomplete
Flush(i) ==
  /\ mp3[i].exists /\ mp3[i].pending
  /\ mp3' = [mp3 EXCEPT ![i] = Mp3Full(@.src)]
  /\ UNCHANGED <<pc, msgs, idx, ret, rdy, hung, resp, wav, json>>
  /\ UNCHANGED notPipe

PipeStep(r) ==
  \/ ChatProvider(r) \/ GenerateAudio(r) \/ EnsureReadyFirst(r)
  \/ EnsureReadyWait(r) \/ ValidateFirst(r)
  \/ LsValidateMp3(r) \/ LsFFmpegProbe(r) \/ LsFFmpeg(r) \/ LsValidateWav(r)
  \/ LsRhubarbProbe(r) \/ LsPreRhubarb(r) \/ LsRhubarb(r) \/ LsValidateJson(r)
  \/ LsNormalizeJson(r) \/ LsFallback(r)
  \/ PreConv(r) \/ Encode(r) \/ ReadJson(r) \/ CatchPreConv(r) \/ CatchEncode(r)
  \/ RetryValidate(r) \/ RetryPreConv(r) \/ RetryEncode(r) \/ RetryReadJson(r)

PipeNext ==
  \/ \E r \in Reqs : PipeStep(r)
  \/ \E i \in MsgIdx : Flush(i)



\* =====================================================================
\* ElevenLabsService.generateAudio on drawn inputs (part_003 1065-1139)
\* =====================================================================

NoOut == [t |-> "none"]

SvcInit ==
  /\ svcPc = "start"
  /\ svcKey \in BOOLEAN
  /\ svcVoice \in BOOLEAN
  /\ svcText \in Texts
  /\ svcFile \in {AbsentFile, Mp3Full(0)}
  /\ svcOut = NoOut
  /\ svcCalls = 0
  /\ svcSent = -1
  /\ svcRes = ""

\* a precondition fails: the error is returned at once (1066-1097)
SvcReject ==
  /\ svcPc = "start"
  /\ generateAudioPrecondition(svcKey, svcVoice, svcText) # ""
  /\ svcRes' = generateAudioPrecondition(svcKey, svcVoice, svcText)
  /\ svcPc' = "done"
  /\ UNCHANGED <<svcKey, svcVoice, svcText, svcFile, svcOut, svcCalls, svcSent>>
  /\ UNCHANGED notSvc

\* await voice.textToSpeech(apiKey, voiceId, outputPath, text) (1101)
SvcCollaborator ==
  /\ svcPc = "start"
  /\ generateAudioPrecondition(svcKey, svcVoice, svcText) = ""
  /\ \E out \in CollabThrows \cup CollabWrites :
       /\ svcOut' = out
       /\ svcFile' = CollabFile(out, 1, svcFile)
  /\ svcCalls' = svcCalls + 1
  /\ svcSent' = svcText.len
  /\ svcPc' = "called"
  /\ UNCHANGED <<svcKey, svcVoice, svcText, svcRes>>
  /\ UNCHANGED notSvc

\* fs.stat(outputPath) and the result, or the classified error (1103-1138)
SvcVerify ==
  /\ svcPc = "called"
  /\ svcRes' = generateAudioVerify(svcOut, svcFile)
  /\ svcPc' = "done"
  /\ UNCHANGED <<svcKey, svcVoice, svcText, svcFile, svcOut, svcCalls, svcSent>>
  /\ UNCHANGED notSvc

SvcNext == SvcReject \/ SvcCollaborator \/ SvcVerify


\* =====================================================================
\* Start-up initialisation of the default artifacts (index.js 69-196,
\* 1947) and the canned answers of POST /chat (index.js 797-845)
\* =====================================================================
\* defaultMessages, in the order of the loop
DefaultFiles == <<"intro_0", "intro_1", "api_0", "api_1">>
NDefaults == Len(DefaultFiles)

DefaultText(k) ==
  IF k = 1 THEN [len |-> 29, nonWs |-> 24, pieces |-> 6]
  ELSE IF k = 2 THEN [len |-> 52, nonWs |-> 42, pieces |-> 11]
  ELSE IF k = 3 THEN [len |-> 50, nonWs |-> 41, pieces |-> 10]
  ELSE [len |-> 83, nonWs |-> 69, pieces |-> 15]


MaxChats == 1     \* canned answers kept

\* a default artifact recorded with the extraction tool before start-up
ShippedTrack == JsonTrack(RhubarbTrack(0, TRUE, TRUE, 3))

BootInit ==
  /\ bootKey \in BOOLEAN
  /\ bootPc = 1
  /\ \E shipped \in SUBSET (1..NDefaults), wavOnly \in SUBSET (1..NDefaults) :
       /\ shipped \cap wavOnly = {}
       /\ dwav = [k \in 1..NDefaults |->
                   IF k \in shipped \cup wavOnly THEN WavFull(0) ELSE AbsentFile]
       /\ djson = [k \in 1..NDefaults |-> IF k \in shipped THEN ShippedTrack ELSE AbsentJson]
  /\ cresp = <<>>

\* fs.access(wavPath) and fs.access(jsonPath) both succeed (81-84)
DefaultPresent(k) == dwav[k].exists /\ djson[k].exists

BootSkip ==
  /\ bootPc <= NDefaults
  /\ DefaultPresent(bootPc)
  /\ bootPc' = bootPc + 1
  /\ UNCHANGED <<bootKey, dwav, djson, cresp>>
  /\ UNCHANGED notBoot

\* a faulty start-up fallback that writes the unmarked character-count track
DefaultFallbackUnmarked(k) == {createFallbackLipSync(0, DefaultText(k))}

\* the file-level createFallbackAudio(fileName, text): the enhanced track,
\* with soundFile set to <file>.wav, or the basic one (156-196)
DefaultFallbackTracks(k) ==
  { [createEnhancedFallbackLipSync(0, DefaultText(k), AbsentFile) EXCEPT !.ext = "wav"],
    [basicFallback(0) EXCEPT !.ext = "wav"] }

BootFallback ==
  /\ bootPc <= NDefaults
  /\ ~DefaultPresent(bootPc)
  /\ \E t \in DefaultFallbackTracks(bootPc) :
       djson' = [djson EXCEPT ![bootPc] = JsonTrack(t)]
  /\ bootPc' = bootPc + 1
  /\ UNCHANGED <<bootKey, dwav, cresp>>
  /\ UNCHANGED notBoot

\* with a key: synthesis, conversion and extraction all succeed (88-135);
\* any failure takes BootFallback instead (136-147)
BootGenerate ==
  /\ bootPc <= NDefaults
  /\ ~DefaultPresent(bootPc)
  /\ bootKey
  /\ dwav' = [dwav EXCEPT ![bootPc] = WavFull(0)]
  /\ \E w \in {"good", "emptycues", "nometa"} :
       djson' = [djson EXCEPT ![bootPc] =
                   LET jf == RhubarbFile(w, WavFull(0), AbsentJson)
                   IN JsonTrack(normalizeLipsyncMetadata(jf.track))]
  /\ bootPc' = bootPc + 1
  /\ UNCHANGED <<bootKey, cresp>>
  /\ UNCHANGED notBoot

\* audioFileToBase64 of a .wav path: no MP3 validation applies
audioFileToBase64Wav(f) == audioFileToBase64Checks(f, f, FALSE)

\* one message of a canned answer (800-806, 826-832); file and wavOnDisk
\* are ghost fields
CannedMessage(k) ==
  [file |-> k,
   wavOnDisk |-> dwav[k].exists,
   audio |-> IF audioFileToBase64Wav(dwav[k]) = "ok" THEN "data" ELSE "empty",
   mime |-> "audio/wav",
   lipsync |-> readJsonTranscript(djson[k]).track]

\* userMessage, requiredKey: ghost fields, the request that was answered
CannedAnswer(kind, ks, userMessage, requiredKey) ==
  [kind |-> kind, initDone |-> bootPc > NDefaults,
   userMessage |-> userMessage, elevenLabsApiKey |-> bootKey, requiredKey |-> requiredKey,
   messages |-> [j \in 1..Len(ks) |-> CannedMessage(ks[j])]]

\* a faulty entry of the handler that does not look at the keys
chatEntryNoKeyCheck(userMessage, elevenLabsApiKey, requiredKey) ==
  IF ~userMessage THEN "intro" ELSE "provider"

\* the entry of the handler (797, 823): the branch taken for a request.
\* userMessage: the message is non-empty; the keys: the key is set.
chatEntry(userMessage, elevenLabsApiKey, requiredKey) ==
  IF ~userMessage THEN "intro"
  ELSE IF ~elevenLabsApiKey \/ ~requiredKey THEN "missing_key"
  ELSE "provider"

\* POST /chat without a user message (797-819)
ChatIntro ==
  /\ Len(cresp) < MaxChats
  /\ \E requiredKey \in BOOLEAN :
       /\ chatEntry(FALSE, bootKey, requiredKey) = "intro"
       /\ cresp' = Append(cresp, CannedAnswer("intro", <<1, 2>>, FALSE, requiredKey))
  /\ UNCHANGED <<bootKey, bootPc, dwav, djson>>
  /\ UNCHANGED notBoot

\* POST /chat with a user message while the speech key or the key of the
\* chosen provider is missing (821-845)
ChatMissingKey ==
  /\ Len(cresp) < MaxChats
  /\ \E requiredKey \in BOOLEAN :
       /\ chatEntry(TRUE, bootKey, requiredKey) = "missing_key"
       /\ cresp' = Append(cresp, CannedAnswer("missing_key", <<3, 4>>, TRUE, requiredKey))
  /\ UNCHANGED <<bootKey, bootPc, dwav, djson>>
  /\ UNCHANGED notBoot

\* POST /chat that passes both checks and reaches the provider call
\* (847-866): recorded with kind "provider" and no message, the request
\* being still in flight
ChatProceed ==
  /\ Len(cresp) < MaxChats
  /\ \E requiredKey \in BOOLEAN :
       /\ chatEntry(TRUE, bootKey, requiredKey) = "provider"
       /\ cresp' = Append(cresp, CannedAnswer("provider", <<>>, TRUE, requiredKey))
  /\ UNCHANGED <<bootKey, bootPc, dwav, djson>>
  /\ UNCHANGED notBoot

BootNext ==
  BootSkip \/ BootFallback \/ BootGenerate \/ ChatIntro \/ ChatMissingKey \/ ChatProceed

\* =====================================================================
\* waitForFileReady, poll by poll (index.js 1161-1192)
\* =====================================================================
\* what fs.stat can observe: -1 for a missing file, else the size
WaitSizes == -1..MaxSize

\* one pass through the loop body after fs.stat: the new lastSize and
\* stableCount, and whether the function returns true (1169-1182).  A
\* missing file (the catch) and an empty file change nothing.
PollStep(last, stable, obs) ==
  IF obs > 0
    THEN IF obs = last
           THEN [last |-> last, stable |-> stable + 1, ret |-> stable + 1 >= 3]
           ELSE [last |-> obs, stable |-> 0, ret |-> FALSE]
    ELSE [last |-> last, stable |-> stable, ret |-> FALSE]

\* a faulty sleep that does not let time pass
SleepStuck(t, dt) == t

\* await new Promise(resolve => setTimeout(resolve, checkIntervalMs)):
\* at least one interval passes (1184, 1187)
Sleep(t, dt) == t + dt

WaitInit ==
  /\ wPc = "polling"
  /\ wFile \in WaitSizes
  /\ wTime = 0 /\ wLast = 0 /\ wStable = 0
  /\ wHist = <<>>
  /\ wRes = "none"

\* the loop condition holds: fs.stat, the size test, and the sleep or the
\* return of true
WaitPoll ==
  /\ wPc = "polling"
  /\ wTime < MaxWait
  /\ LET st == PollStep(wLast, wStable, wFile) IN
       /\ wLast' = st.last
       /\ wStable' = st.stable
       /\ wHist' = Append(wHist, wFile)
       /\ IF st.ret
            THEN wPc' = "done" /\ wRes' = "true" /\ wTime' = wTime
            ELSE /\ \E dt \in 1..2 : wTime' = Sleep(wTime, dt)
                 /\ UNCHANGED <<wPc, wRes>>
  /\ wFile' = wFile
  /\ UNCHANGED notWait

\* the loop condition fails: return false (1191)
WaitDeadline ==
  /\ wPc = "polling"
  /\ wTime >= MaxWait
  /\ wPc' = "done"
  /\ wRes' = "false"
  /\ UNCHANGED <<wFile, wTime, wLast, wStable, wHist>>
  /\ UNCHANGED notWait

\* between two polls a writer creates, grows, truncates or removes the file
WaitFileChanges ==
  /\ wPc = "polling"
  /\ \E s \in WaitSizes \ {wFile} : wFile' = s
  /\ UNCHANGED <<wPc, wTime, wLast, wStable, wHist, wRes>>
  /\ UNCHANGED notWait

WaitStep == WaitPoll \/ WaitDeadline
WaitNext == WaitPoll \/ WaitDeadline \/ WaitFileChanges


\* =====================================================================
\* The pure functions on drawn arguments: audioFileToBase64 (index.js
\* 1547-1705), normalizeLipsyncMetadata (2178-2191),
\* createEnhancedFallbackLipSync (2444-2498), createFallbackLipSync
\* (2044-2057)
\* =====================================================================
NoArgs == [op |-> "none"]

\* the files audioFileToBase64 is applied to.  A file that cannot be
\* accessed is seen by validateAudioFile as AbsentFile is.
EncodeFiles ==
  {AbsentFile, Mp3Full(0), Mp3Partial(0), Mp3Created(0), Mp3Garbage(0),
   WavFull(0), WavEmpty(0)}

\* soundFile values: a base name and an ending
NameBases == {<<>>, <<"a">>, <<"a", ".", "w", "a", "v">>}
NameEndings ==
  {<<>>, <<".", "w", "a", "v">>, <<".", "W", "A", "V">>, <<".", "W", "a", "v">>,
   <<".", "m", "p", "3">>, <<".", "M", "P", "3">>, <<"w", "a", "v">>,
   <<".", "w", "a", "v", "e">>}
Names == {b \o e : b \in NameBases, e \in NameEndings}
NamedTracks == [hasMeta : BOOLEAN, soundFile : Names]

\* the hint file of createEnhancedFallbackLipSync: none, empty, or of a
\* size whose quotient by 32000 has no 5 as its third decimal
HintFile(size) ==
  [exists |-> TRUE, size |-> size, hdr |-> "id3", pending |-> FALSE, src |-> 0]
HintFiles ==
  {AbsentFile, WavEmpty(0), HintFile(1000), HintFile(32100), HintFile(50000),
   HintFile(64000), HintFile(600000)}

\* the files validateMp3FileForProcessing is applied to, byte by byte
ValidateSizes == {0, 3, 100, 127, 128, 500, 1023, 1024, 5000}
ValidateHeads ==
  {<<>>, <<73, 68, 51>>, <<73, 68, 51, 255>>, <<255, 251>>, <<255, 0>>,
   <<0, 255, 224>>, <<82, 73, 70, 70>>}
ValidateArgs ==
  {a \in [exists : BOOLEAN, size : ValidateSizes, head : ValidateHeads,
          fill : {0, 255}, read : {"ok", "zero", "throws"}] :
     /\ Len(a.head) <= a.size
     /\ ~a.exists => a.size = 0 /\ a.fill = 0 /\ a.read = "ok"}

\* the file of ValidateArgs as validateAudioFile and the header check find it
ValidateFile(a) ==
  [exists |-> a.exists, size |-> a.size,
   hdr |-> HeaderClass(a.head, a.fill, Min(HEADER_BUFFER_SIZE, a.size)),
   pending |-> FALSE, src |-> 0]

\* the error codes of the service, of the handler's table, and none
ErrorCodes ==
  {"MISSING_API_KEY", "MISSING_VOICE_ID", "EMPTY_TEXT", "TEXT_TOO_LONG",
   "INVALID_API_KEY", "INVALID_VOICE_ID", "RATE_LIMITED", "QUOTA_EXCEEDED",
   "NETWORK_ERROR", "SERVER_ERROR", "UNKNOWN_ERROR",
   "FILE_VERIFICATION_FAILED", "EMPTY_AUDIO_FILE", "TIMEOUT_ERROR", ""}

\* the errors handed to logAudioError: results of the service (errorCode
\* and, for three codes, retryable: true) and thrown errors (code or
\* nothing)
LoggedErrors ==
  {[errorCode |-> c, code |-> k, retryable |-> handleElevenLabsErrorRetryable(c)] :
     c \in ErrorCodes \ {"", "TIMEOUT_ERROR"}, k \in {"", "ENOENT"}}
  \cup {[errorCode |-> "", code |-> k, retryable |-> FALSE] : k \in ErrorCodes \cup {"ENOENT"}}

\* ----------------------------------- the server without lip sync
\* audioFileToBase64 of the server without lip sync: "" when the file
\* cannot be accessed, when the read throws and when no byte was read
audioFileToBase64Lite(f, read) ==
  IF ~f.exists THEN "empty"
  ELSE IF read = "throws" THEN "empty"
  ELSE IF f.size = 0 THEN "empty"
  ELSE "data"

\* a message as the text provider returns it: no audio, audioMime or
\* lipsync field ("unset": the field is absent)
ProviderMessage == [audio |-> "unset", audioMime |-> "unset", lipsync |-> "unset"]

\* a faulty loop body whose catch sets the audio only
chatMessageLiteNoMime(m, tts, f, read) ==
  IF tts = "success"
    THEN [m EXCEPT !.audio = audioFileToBase64Lite(f, read), !.audioMime = "audio/mpeg"]
    ELSE [m EXCEPT !.audio = "empty"]

\* the loop body of the server without lip sync: generateAudio, then the
\* encoding, or the catch when generateAudio reports an error or throws.
\* tts: "success", "error" (success: false) or "throws".
chatMessageLite(m, tts, f, read) ==
  IF tts = "success"
    THEN [m EXCEPT !.audio = audioFileToBase64Lite(f, read), !.audioMime = "audio/mpeg"]
    ELSE [m EXCEPT !.audio = "empty", !.audioMime = "audio/mpeg"]

\* a message of the canned answers of the server without lip sync
cannedMessageLite(f, read) ==
  [audio |-> audioFileToBase64Lite(f, read), audioMime |-> "audio/mpeg", lipsync |-> "unset"]

LiteArgs ==
  [from : {"provider", "canned"}, tts : {"success", "error", "throws"},
   file : EncodeFiles, read : {"ok", "throws"}]

\* ensureFileReady on a file that changes while it waits: first is the
\* file at the first validateAudioFile, later the file at the
\* re-validation, fileReady the answer of waitForFileReady in between
\* (true only for a file that was seen with content)
ReadyArgs ==
  {a \in [first : EncodeFiles, later : EncodeFiles, fileReady : BOOLEAN] :
     a.fileReady => a.later.exists /\ a.later.size > 0}

\* AudioErrorHandler.performAudioHealthCheck(elevenLabsService): validation
\* is what performFullValidation does ("valid", "invalid" or "throws"),
\* writable whether fs.access(audiosDir, W_OK) succeeds.  The services
\* object is built with three entries, two of which are tested.
ValidationOutcomes == {"valid", "invalid", "throws"}

HealthServices == {"elevenlabs", "filesystem", "ffmpeg"}

performAudioHealthCheck(validation, writable) ==
  LET start == [svc \in HealthServices |-> "unknown"]
      withEl == [start EXCEPT !["elevenlabs"] =
                   IF validation = "throws" THEN "error"
                   ELSE IF validation = "valid" THEN "healthy" ELSE "unhealthy"]
      services == [withEl EXCEPT !["filesystem"] =
                     IF writable THEN "healthy" ELSE "error"]
      allHealthy == \A svc \in HealthServices : services[svc] = "healthy"
  IN [services |-> services,
      overallStatus |-> IF allHealthy THEN "healthy" ELSE "degraded"]

\* the text providers GET /health looks for in the environment
TextProviders == {"openai", "claude", "gemini", "cohere"}

\* GET /health: hasKey is elevenLabsApiKey, first the handler's own
\* performFullValidation, second the one performAudioHealthCheck makes,
\* configured the text providers whose key is set
healthStatus(hasKey, first, second, writable, configured) ==
  LET s0 == "healthy"
      s1 == IF ~hasKey \/ first # "valid" THEN "degraded" ELSE s0
      configuredProviders == Cardinality(configured)
      s2 == IF configuredProviders = 0 THEN "degraded" ELSE s1
      audioHealthCheck == performAudioHealthCheck(second, writable)
      s3 == IF audioHealthCheck.overallStatus # "healthy" THEN "degraded" ELSE s2
  IN [status |-> s3,
      elevenlabs |-> IF ~hasKey THEN "not_configured"
                     ELSE IF first = "throws" THEN "error"
                     ELSE IF first = "valid" THEN "healthy" ELSE "unhealthy",
      providers |-> IF configuredProviders > 0 THEN "healthy" ELSE "no_providers",
      audio |-> audioHealthCheck.overallStatus,
      audioServices |-> audioHealthCheck.services,
      httpStatus |-> IF s3 \in {"healthy", "degraded"} THEN 200 ELSE 503]

HealthArgs ==
  [hasKey : BOOLEAN, first : ValidationOutcomes, second : ValidationOutcomes,
   writable : BOOLEAN, configured : SUBSET TextProviders]

\* text.length of the context handed to logAudioError (-1: no text)
LoggedTextLengths == {-1, 0, 1, 100, 101, 5000}

TextFiveWords == [len |-> 23, nonWs |-> 19, pieces |-> 5]
FallbackTexts ==
  {TextHello, TextEmpty, TextBlank, TextFiveWords, TextSentence, TextAtCap}

FnInit ==
  /\ fnOut = NoArgs
  /\ \/ \E f \in EncodeFiles, g \in EncodeFiles, isMp3 \in BOOLEAN :
          fnIn = [op |-> "encode", file |-> f, later |-> g, isMp3 |-> isMp3]
     \/ \E t \in NamedTracks : fnIn = [op |-> "normalize", track |-> t]
     \/ \E text \in FallbackTexts, f \in HintFiles :
          fnIn = [op |-> "enhanced", text |-> text, file |-> f]
     \/ \E text \in FallbackTexts : fnIn = [op |-> "simple", text |-> text]
     \/ \E a \in ValidateArgs : fnIn = [op |-> "validate", bytes |-> a]
     \/ \E e \in LoggedErrors, len \in LoggedTextLengths :
          fnIn = [op |-> "log", error |-> e, textLen |-> len]
     \/ \E c \in ErrorCodes : fnIn = [op |-> "retry", errorCode |-> c]
     \/ \E a \in LiteArgs : fnIn = [op |-> "lite", args |-> a]
     \/ \E a \in ReadyArgs : fnIn = [op |-> "ready", args |-> a]
     \/ \E a \in HealthArgs : fnIn = [op |-> "health", args |-> a]

\* audioFileToBase64(file)
FnEncode ==
  /\ fnIn.op = "encode" /\ fnOut.op = "none"
  /\ \E code \in audioFileToBase64Outcomes(fnIn.file, fnIn.later, fnIn.isMp3) :
       fnOut' = [op |-> "encode", code |-> code, ret |-> audioFileToBase64Return(code)]
  /\ UNCHANGED fnIn
  /\ UNCHANGED notFn

\* normalizeLipsyncMetadata(track), once and applied to its own result
FnNormalize ==
  /\ fnIn.op = "normalize" /\ fnOut.op = "none"
  /\ fnOut' = [op |-> "normalize",
               once |-> normalizeNamedTrack(fnIn.track),
               argument |-> normalizeArgumentAfter(fnIn.track),
               twice |-> normalizeNamedTrack(normalizeNamedTrack(fnIn.track))]
  /\ UNCHANGED fnIn
  /\ UNCHANGED notFn

\* createEnhancedFallbackLipSync(0, text, path): duration and cue times in
\* hundredths of a second
FnEnhanced ==
  /\ fnIn.op = "enhanced" /\ fnOut.op = "none"
  /\ LET d == EnhancedDuration(fnIn.text, fnIn.file) IN
       fnOut' = [op |-> "enhanced",
                 units |-> d.units,
                 duration |-> ToFixed2(d.units),
                 source |-> d.source,
                 cues |-> mouthCues(d.units),
                 track |-> createEnhancedFallbackLipSync(0, fnIn.text, fnIn.file)]
  /\ UNCHANGED fnIn
  /\ UNCHANGED notFn

\* createFallbackLipSync(0, text): one cue from 0 to the duration
FnSimple ==
  /\ fnIn.op = "simple" /\ fnOut.op = "none"
  /\ LET t == createFallbackLipSync(0, fnIn.text) IN
       fnOut' = [op |-> "simple",
                 duration |-> t.durMs \div 10,
                 cues |-> <<[start |-> 0, end |-> t.durMs \div 10]>>,
                 track |-> t]
  /\ UNCHANGED fnIn
  /\ UNCHANGED notFn

\* validateMp3FileForProcessing(filePath)
FnValidate ==
  /\ fnIn.op = "validate" /\ fnOut.op = "none"
  /\ LET res == validateMp3FileRead(ValidateFile(fnIn.bytes), fnIn.bytes.read) IN
       fnOut' = [op |-> "validate", isValid |-> res.verdict = "ok",
                 verdict |-> res.verdict, opened |-> res.opened]
  /\ UNCHANGED fnIn
  /\ UNCHANGED notFn

\* AudioErrorHandler.logAudioError(error, context)
FnLog ==
  /\ fnIn.op = "log" /\ fnOut.op = "none"
  /\ fnOut' = [op |-> "log", entry |-> logEntry(fnIn.error),
                contextText |-> logContextText(fnIn.textLen)]
  /\ UNCHANGED fnIn
  /\ UNCHANGED notFn

\* AudioErrorHandler.isRetryableError(errorCode), also the canRetry field
\* of handleElevenLabsError and createErrorResponse
FnRetry ==
  /\ fnIn.op = "retry" /\ fnOut.op = "none"
  /\ fnOut' = [op |-> "retry", canRetry |-> isRetryableError(fnIn.errorCode)]
  /\ UNCHANGED fnIn
  /\ UNCHANGED notFn

\* one message of an answer of the server without lip sync
FnLite ==
  /\ fnIn.op = "lite" /\ fnOut.op = "none"
  /\ LET a == fnIn.args IN
       fnOut' = [op |-> "lite",
                 message |-> IF a.from = "canned"
                               THEN cannedMessageLite(a.file, a.read)
                               ELSE chatMessageLite(ProviderMessage, a.tts, a.file, a.read)]
  /\ UNCHANGED fnIn
  /\ UNCHANGED notFn

\* ensureFileReady(filePath, operation)
FnReady ==
  /\ fnIn.op = "ready" /\ fnOut.op = "none"
  /\ LET a == fnIn.args
         mode == ReadyMode(a.first) IN
       fnOut' = [op |-> "ready", mode |-> mode,
                 success |-> ensureFileReady(mode, a.later, a.fileReady)]
  /\ UNCHANGED fnIn
  /\ UNCHANGED notFn

\* GET /health
FnHealth ==
  /\ fnIn.op = "health" /\ fnOut.op = "none"
  /\ LET a == fnIn.args IN
       fnOut' = [op |-> "health",
                 check |-> performAudioHealthCheck(a.second, a.writable),
                 health |-> healthStatus(a.hasKey, a.first, a.second,
                                         a.writable, a.configured)]
  /\ UNCHANGED fnIn
  /\ UNCHANGED notFn

FnNext ==
  \/ FnEncode \/ FnNormalize \/ FnEnhanced \/ FnSimple \/ FnValidate \/ FnLog \/ FnRetry
  \/ FnLite \/ FnReady \/ FnHealth


\* =====================================================================
\* ElevenLabsService: validateCredentials and getAvailableVoices
\* (part_003 925-979).  Time is counted in minutes.
\* =====================================================================
VoiceLists == {<<>>, <<"v1">>, <<"v1", "v2">>}

\* what voice.getVoices does: throws, returns no array, or returns a list
GetVoicesOutcomes ==
  {[t |-> "throw", voices |-> <<>>], [t |-> "null", voices |-> <<>>]}
    \cup {[t |-> "list", voices |-> l] : l \in VoiceLists}

\* validateCredentials: the service afterwards, the verdict, and whether
\* the API was contacted
validateCredentials(s, api) ==
  IF ~s.apiKey THEN [svc |-> s, isValid |-> FALSE, contacted |-> FALSE]
  ELSE IF api.t # "list" THEN [svc |-> s, isValid |-> FALSE, contacted |-> TRUE]
  ELSE [svc |-> [s EXCEPT !.availableVoices = api.voices, !.isValidated = TRUE,
                          !.lastValidationTime = s.now],
        isValid |-> TRUE, contacted |-> TRUE]

\* the condition under which getAvailableVoices answers from the cache
\* (lastValidationTime = 0: null)
voicesCacheFresh(s) ==
  /\ s.isValidated /\ s.lastValidationTime # 0
  /\ s.now - s.lastValidationTime < CACHE_MINUTES
  /\ Len(s.availableVoices) > 0

\* a faulty getAvailableVoices without the try/catch around the fetch
getAvailableVoicesNoCatch(s, api) ==
  IF voicesCacheFresh(s)
    THEN [svc |-> s, returned |-> s.availableVoices, contacted |-> FALSE, raised |-> FALSE]
  ELSE IF api.t = "throw"
    THEN [svc |-> s, returned |-> <<>>, contacted |-> TRUE, raised |-> TRUE]
  ELSE [svc |-> [s EXCEPT !.availableVoices = api.voices, !.lastValidationTime = s.now],
        returned |-> api.voices, contacted |-> TRUE, raised |-> FALSE]

\* getAvailableVoices: the service afterwards, the list returned, whether
\* the API was contacted and whether the call raised.  voices || [] makes
\* the empty list of an answer that is no array.
getAvailableVoices(s, api) ==
  IF voicesCacheFresh(s)
    THEN [svc |-> s, returned |-> s.availableVoices, contacted |-> FALSE, raised |-> FALSE]
  ELSE IF api.t = "throw"
    THEN [svc |-> s, returned |-> s.availableVoices, contacted |-> TRUE, raised |-> FALSE]
  ELSE [svc |-> [s EXCEPT !.availableVoices = api.voices, !.lastValidationTime = s.now],
        returned |-> api.voices, contacted |-> TRUE, raised |-> FALSE]

NoApi == [t |-> "none", voices |-> <<>>]

VoicesInit ==
  /\ \E k \in BOOLEAN :
       voiceSvc = [apiKey |-> k, isValidated |-> FALSE, availableVoices |-> <<>>,
                   lastValidationTime |-> 0, now |-> 1]
  /\ voiceOut = [op |-> "none"]

VoicesValidate ==
  /\ \E api \in GetVoicesOutcomes :
       LET res == validateCredentials(voiceSvc, api) IN
       /\ voiceSvc' = res.svc
       /\ voiceOut' = [op |-> "validate", before |-> voiceSvc,
                       api |-> IF res.contacted THEN api ELSE NoApi,
                       isValid |-> res.isValid, returned |-> <<>>,
                       contacted |-> res.contacted, raised |-> FALSE]
  /\ UNCHANGED notVoice

VoicesGet ==
  /\ \E api \in GetVoicesOutcomes :
       LET res == getAvailableVoices(voiceSvc, api) IN
       /\ voiceSvc' = res.svc
       /\ voiceOut' = [op |-> "get", before |-> voiceSvc,
                       api |-> IF res.contacted THEN api ELSE NoApi,
                       isValid |-> FALSE, returned |-> res.returned,
                       contacted |-> res.contacted, raised |-> res.raised]
  /\ UNCHANGED notVoice

\* a minute passes
VoicesTick ==
  /\ voiceSvc.now < MaxClock
  /\ voiceSvc' = [voiceSvc EXCEPT !.now = @ + 1]
  /\ UNCHANGED voiceOut
  /\ UNCHANGED notVoice

VoicesNext == VoicesValidate \/ VoicesGet \/ VoicesTick


\* =====================================================================
\* The session server: conversationHistory, callOpenAI and the session
\* endpoints (part_003 22-122, 180-226, 243-397).  sessHist is the Map
\* conversationHistory, <<>> standing for a key the Map does not hold.  A
\* message is its role and the chat turn it belongs to; the system
\* prompt belongs to turn 0.
\* =====================================================================
Sessions == {"default"}

SystemPrompt == [role |-> "system", turn |-> 0]

NoHistories == [s \in Sessions |-> <<>>]

\* Array.prototype.splice(start, deleteCount), start counted from 0
splice(arr, start, deleteCount) ==
  SubSeq(arr, 1, start) \o SubSeq(arr, start + deleteCount + 1, Len(arr))

\* getConversationHistory(sessionId): the Map after the call; the array
\* it returns is the stored one, h[sessionId] of the result
getConversationHistory(h, sessionId) ==
  IF h[sessionId] = <<>> THEN [h EXCEPT ![sessionId] = <<SystemPrompt>>] ELSE h

addToConversationHistorySpliceAtZero(h, sessionId, role, turn) ==
  LET g == getConversationHistory(h, sessionId)
      pushed == Append(g[sessionId], [role |-> role, turn |-> turn])
      conversationLength == Len(pushed) - 1
  IN [g EXCEPT ![sessionId] =
        IF conversationLength > MAX_CONTEXT_MESSAGES + 5
          THEN splice(pushed, 0, conversationLength - MAX_CONTEXT_MESSAGES)
          ELSE pushed]

\* addToConversationHistory(sessionId, role, content): the Map after it
addToConversationHistory(h, sessionId, role, turn) ==
  LET g == getConversationHistory(h, sessionId)
      pushed == Append(g[sessionId], [role |-> role, turn |-> turn])
      conversationLength == Len(pushed) - 1
  IN [g EXCEPT ![sessionId] =
        IF conversationLength > MAX_CONTEXT_MESSAGES + 5
          THEN splice(pushed, 1, conversationLength - MAX_CONTEXT_MESSAGES)
          ELSE pushed]

\* checkSessionLimits(sessionId); generateNewSessionId gives an id made of
\* the clock and a random suffix, written "new" here
checkSessionLimits(h, sessionId) ==
  LET conversationLength == Len(getConversationHistory(h, sessionId)[sessionId]) - 1
  IN IF conversationLength >= MAX_MESSAGES_PER_SESSION
       THEN [shouldReset |-> TRUE, newSessionId |-> "new"]
       ELSE [shouldReset |-> FALSE, newSessionId |-> "none"]

\* callOpenAI up to its await: conversationMessages is the stored array,
\* read after addToConversationHistory has pushed to it and trimmed it
callOpenAIMessages(h, sessionId, turn) ==
  LET limitCheck == checkSessionLimits(h, sessionId)
      after == addToConversationHistory(h, sessionId, "user", turn)
      conversationMessages == after[sessionId]
      messages == Append(conversationMessages, [role |-> "user", turn |-> turn])
  IN IF limitCheck.shouldReset
       THEN Append(messages, [role |-> "system", turn |-> turn])
       ELSE messages

\* POST /chat with a message and both keys set, up to the provider call
callOpenAIStart(sessionId, turn) ==
  LET limitCheck == checkSessionLimits(sessHist, sessionId) IN
    /\ sessHist' = addToConversationHistory(sessHist, sessionId, "user", turn)
    /\ sessPending' = sessPending \cup
         {[session |-> sessionId, turn |-> turn, limitCheck |-> limitCheck]}
    /\ sessOut' = [kind |-> "sent", session |-> sessionId, turn |-> turn,
                   before |-> sessHist[sessionId],
                   messages |-> callOpenAIMessages(sessHist, sessionId, turn),
                   shouldReset |-> limitCheck.shouldReset]

SessChatStart ==
  /\ sessTurn < MaxTurns
  /\ Cardinality(sessPending) < MaxPending
  /\ sessTurn' = sessTurn + 1
  /\ \E sessionId \in Sessions : callOpenAIStart(sessionId, sessTurn + 1)
  /\ UNCHANGED notSess

\* the provider answered with JSON that parses: the assistant text is
\* stored and the response carries the reset information
SessChatReturn ==
  /\ \E p \in sessPending :
       /\ sessPending' = sessPending \ {p}
       /\ sessHist' = addToConversationHistory(sessHist, p.session, "assistant", p.turn)
       /\ sessOut' = [kind |-> "reply", session |-> p.session, turn |-> p.turn,
                      before |-> sessHist[p.session],
                      resetSuggested |-> p.limitCheck.shouldReset,
                      newSessionId |-> p.limitCheck.newSessionId]
  /\ UNCHANGED sessTurn
  /\ UNCHANGED notSess

\* the provider call or JSON.parse threw: status 500, nothing stored
SessChatFail ==
  /\ \E p \in sessPending :
       /\ sessPending' = sessPending \ {p}
       /\ sessOut' = [kind |-> "failed", session |-> p.session, turn |-> p.turn]
  /\ UNCHANGED <<sessHist, sessTurn>>
  /\ UNCHANGED notSess

\* POST /chat without a message: the greeting
SessGreet ==
  /\ \E sessionId \in Sessions :
       LET g == getConversationHistory(sessHist, sessionId) IN
         /\ sessHist' = g
         /\ sessOut' = [kind |-> "greet", session |-> sessionId,
                        isFirstTime |-> Len(g[sessionId]) <= 1]
  /\ UNCHANGED <<sessTurn, sessPending>>
  /\ UNCHANGED notSess

\* DELETE /sessions/:sessionId
SessDelete ==
  /\ \E sessionId \in Sessions :
       IF sessHist[sessionId] # <<>>
         THEN /\ sessHist' = [sessHist EXCEPT ![sessionId] = <<>>]
              /\ sessOut' = [kind |-> "deleted", session |-> sessionId]
         ELSE /\ UNCHANGED sessHist
              /\ sessOut' = [kind |-> "notfound", session |-> sessionId]
  /\ UNCHANGED <<sessTurn, sessPending>>
  /\ UNCHANGED notSess

SessInit ==
  /\ sessHist = NoHistories /\ sessTurn = 0 /\ sessPending = {}
  /\ sessOut = [kind |-> "none"]

SessNext == SessChatStart \/ SessChatReturn \/ SessChatFail \/ SessGreet \/ SessDelete

\* one client that sends its next message when the last one was answered;
\* the turns are not told apart, so the conversation has no end
SessChatStartLive ==
  /\ sessPending = {}
  /\ \E sessionId \in Sessions : callOpenAIStart(sessionId, sessTurn)
  /\ UNCHANGED sessTurn
  /\ UNCHANGED notSess

SessNextLive == SessChatStartLive \/ SessChatReturn \/ SessChatFail


\* =====================================================================
\* The specifications
\* =====================================================================
\* a machine that is not the one under study rests in one state
SvcIdle ==
  /\ svcPc = "off" /\ svcKey = FALSE /\ svcVoice = FALSE /\ svcText = TextEmpty
  /\ svcFile = AbsentFile /\ svcOut = NoOut /\ svcCalls = 0 /\ svcSent = -1 /\ svcRes = ""

BootIdle ==
  /\ bootKey = TRUE /\ bootPc = NDefaults + 1
  /\ dwav = [k \in 1..NDefaults |-> AbsentFile]
  /\ djson = [k \in 1..NDefaults |-> AbsentJson]
  /\ cresp = <<>>

WaitIdle ==
  /\ wPc = "off" /\ wFile = -1 /\ wTime = 0 /\ wLast = 0 /\ wStable = 0
  /\ wHist = <<>> /\ wRes = "none"

FnIdle == fnIn = NoArgs /\ fnOut = NoArgs

VoiceIdle ==
  /\ voiceSvc = [apiKey |-> FALSE, isValidated |-> FALSE, availableVoices |-> <<>>,
                 lastValidationTime |-> 0, now |-> 0]
  /\ voiceOut = [op |-> "off"]

SessIdle ==
  /\ sessHist = <<>> /\ sessTurn = 0 /\ sessPending = {} /\ sessOut = [kind |-> "off"]

PipeIdle ==
  /\ pc = [r \in Reqs |-> "off"]
  /\ msgs = [r \in Reqs |-> <<>>]
  /\ idx = [r \in Reqs |-> 0]
  /\ ret = [r \in Reqs |-> "main"]
  /\ rdy = [r \in Reqs |-> "stable"]
  /\ hung = [r \in Reqs |-> FALSE]
  /\ resp = [r \in Reqs |-> "none"]
  /\ mp3 = [i \in MsgIdx |-> AbsentFile]
  /\ wav = [i \in MsgIdx |-> AbsentFile]
  /\ json = [i \in MsgIdx |-> AbsentJson]

Init == PipeInit /\ SvcIdle /\ BootIdle /\ WaitIdle /\ FnIdle /\ VoiceIdle /\ SessIdle
Next == PipeNext
Spec == Init /\ [][Next]_vars

InitSvc == SvcInit /\ PipeIdle /\ BootIdle /\ WaitIdle /\ FnIdle /\ VoiceIdle /\ SessIdle
NextSvc == SvcNext
SpecSvc == InitSvc /\ [][NextSvc]_vars

InitWait == WaitInit /\ PipeIdle /\ SvcIdle /\ BootIdle /\ FnIdle /\ VoiceIdle /\ SessIdle
NextWait == WaitNext
SpecWait == InitWait /\ [][NextWait]_vars

InitFn == FnInit /\ PipeIdle /\ SvcIdle /\ BootIdle /\ WaitIdle /\ VoiceIdle /\ SessIdle
NextFn == FnNext
SpecFn == InitFn /\ [][NextFn]_vars

InitBoot == BootInit /\ PipeIdle /\ SvcIdle /\ WaitIdle /\ FnIdle /\ VoiceIdle /\ SessIdle
NextBoot == BootNext
SpecBoot == InitBoot /\ [][NextBoot]_vars

InitVoices ==
  VoicesInit /\ PipeIdle /\ SvcIdle /\ BootIdle /\ WaitIdle /\ FnIdle /\ SessIdle
NextVoices == VoicesNext
SpecVoices == InitVoices /\ [][NextVoices]_vars

InitSession ==
  SessInit /\ PipeIdle /\ SvcIdle /\ BootIdle /\ WaitIdle /\ FnIdle /\ VoiceIdle
NextSession == SessNext
SpecSession == InitSession /\ [][NextSession]_vars

\* the session keeps receiving messages and every provider call ends;
\* whether a call ends well is the provider's choice
NextSessionLive == SessNextLive
SpecSessionLive ==
  /\ InitSession /\ [][NextSessionLive]_vars
  /\ WF_vars(SessChatStartLive)
  /\ WF_vars(SessChatReturn)


\* =====================================================================
\* Properties
\* =====================================================================
Answered(r) == resp[r] = "ok"
MsgsOf(r) == {msgs[r][j] : j \in 1..Len(msgs[r])}
Failed(m, stage) == \E k \in 1..Len(m.fails) : m.fails[k] = stage

C2_PartialSuccess ==
  \A r \in Reqs : Answered(r) =>
    \A m \in MsgsOf(r) :
      Failed(m, "transcode") \/ Failed(m, "extraction") =>
        /\ m.lipsync.origin = "fallback"
        /\ m.audio \in {"data", "empty"}
        /\ m.audio = "empty" => Failed(m, "validation") \/ Failed(m, "encoding")

\* C2 witness: transcode failed, real audio delivered with a synthetic track
C2_Witness ==
  \E r \in Reqs : Answered(r) /\ \E m \in MsgsOf(r) :
    /\ Failed(m, "transcode") /\ m.audio = "data" /\ m.asrc = r
    /\ m.lipsync.origin = "fallback"

\* C3: as claimed, no answered message carries an extraction-tool track
\* whose cue array is empty or whose metadata is missing: such an output
\* would have made the extraction stage fail.
C3_EmptyTrackRejected ==
  \A r \in Reqs : Answered(r) =>
    \A m \in MsgsOf(r) :
      m.lipsync.origin = "rhubarb" => m.lipsync.hasMeta /\ m.lipsync.nCues > 0

\* C4: as claimed, every delivered track that was synthesized carries
\* isFallback = true and no track of the extraction tool carries it.
C4_SyntheticMarked ==
  \A r \in Reqs : Answered(r) =>
    \A m \in MsgsOf(r) :
      m.lipsync.isFallback <=> m.lipsync.origin # "rhubarb"

C7_SuccessNeedsAudio ==
  svcPc = "done" =>
    /\ svcRes = "success" =>
         svcCalls = 1 /\ svcOut.t = "ok" /\ svcFile.exists /\ svcFile.size > 0
    /\ svcOut.t = "ok" /\ svcFile.exists /\ svcFile.size = 0 =>
         svcRes = "EMPTY_AUDIO_FILE"
    /\ svcOut.t = "ok" /\ ~svcFile.exists => svcRes = "FILE_VERIFICATION_FAILED"

\* C7 witness: the collaborator returned and left an empty file
C7_Witness ==
  svcPc = "done" /\ svcOut.t = "ok" /\ svcFile.exists /\ svcFile.size = 0
    /\ svcRes = "EMPTY_AUDIO_FILE"

\* C8: as claimed, the audio and the track of a message never come from a
\* file written while another in-flight request was processed.
C8_NoCrossRequestArtifacts ==
  \A r \in Reqs : \A m \in MsgsOf(r) :
    /\ m.asrc \notin Reqs \ {r}
    /\ m.lipsync.src \notin Reqs \ {r}

\* C9: as claimed, a request that awaits an external process that never
\* exits is released by a timeout: its handler can still take a step.
C9_HungProcessReleased ==
  \A r \in Reqs : hung[r] => ENABLED PipeStep(r)

\* C10: as claimed, an answered message has exactly one error record for
\* each of its failed stages.
C10_OneRecordPerFailure ==
  \A r \in Reqs : Answered(r) =>
    \A m \in MsgsOf(r) : Len(m.logs) = Len(m.fails)


\* C3 witness: the tool's track with an empty cue array, its own request's,
\* delivered although no stage failed
C3_Witness ==
  \E r \in Reqs : Answered(r) /\ \E m \in MsgsOf(r) :
    m.lipsync.origin = "rhubarb" /\ m.lipsync.src = r /\ m.lipsync.nCues = 0
      /\ m.fails = <<>>


\* C11: no stage is retried more than once automatically.  For every
\* message of every request, at every moment, the speech collaborator, the
\* FFmpeg conversion and the Rhubarb extraction have each been invoked at
\* most once, the encoder has been attempted at most twice, and the
\* handler's MP3 validation has run at most twice, the second run only
\* after the first one failed although synthesis had reported success.
C11_NoStageRetriedTwice ==
  \A r \in Reqs : \A k \in 1..Len(msgs[r]) :
    LET m == msgs[r][k] IN
      /\ m.calls.synth <= 1
      /\ m.calls.ffmpeg <= 1
      /\ m.calls.rhubarb <= 1
      /\ m.calls.encode <= 2
      /\ Len(m.vals) <= 2
      /\ Len(m.vals) = 2 => ~m.vals[1] /\ m.calls.synth = 1 /\ ~Failed(m, "synthesis")

\* C11 witness: one request attempted the encoder twice after one
\* conversion and one extraction, while another request re-validated its
\* MP3 once and passed
C11_Witness ==
  /\ \E r \in Reqs : Answered(r) /\ \E m \in MsgsOf(r) :
       m.calls = [synth |-> 1, ffmpeg |-> 1, rhubarb |-> 1, encode |-> 2]
  /\ \E r \in Reqs : Answered(r) /\ \E m \in MsgsOf(r) :
       m.vals = <<FALSE, TRUE>> /\ m.calls.encode = 1


\* C12: waitForFileReady returns true only when the most recent three
\* polls all observed the file present with one and the same non-zero
\* size, with no poll among them that found it missing, empty or of a
\* different size.
C12_ThreeConsecutivePolls ==
  wRes = "true" =>
    /\ Len(wHist) >= 3
    /\ \A i \in (Len(wHist) - 2)..Len(wHist) :
         wHist[i] > 0 /\ wHist[i] = wHist[Len(wHist)]

\* C12 witness: true was returned although one of the last three polls
\* found the file missing or empty
C12_Witness ==
  /\ wRes = "true"
  /\ \E i \in (Len(wHist) - 2)..Len(wHist) : wHist[i] <= 0

\* C13: waitForFileReady always terminates.  It polls at most
\* maxWaitMs / checkIntervalMs times; while it has not returned it can
\* take a step, and each of its steps either returns or lets time pass;
\* it returns false only once the deadline has passed, and then whenever
\* no non-zero size was observed or no size was seen four times; and no
\* step of it changes the file.
C13_WaitTerminates ==
  /\ [](/\ Len(wHist) <= MaxWait
        /\ wPc = "polling" => ENABLED WaitStep
        /\ wPc = "done" =>
             /\ wRes \in {"true", "false"}
             /\ wRes = "false" => wTime >= MaxWait
             /\ (\A i \in 1..Len(wHist) : wHist[i] <= 0) => wRes = "false"
             /\ (\A z \in 1..MaxSize :
                   Cardinality({i \in 1..Len(wHist) : wHist[i] = z}) < 4) => wRes = "false")
  /\ [][WaitStep => wFile' = wFile /\ (wPc' = "done" \/ wTime' > wTime)]_vars

\* C13 witness: the deadline passed on a file that was seen with a
\* non-zero size but never stabilized, and false was returned
C13_Witness ==
  /\ wPc = "done" /\ wRes = "false"
  /\ \E i \in 1..Len(wHist) : wHist[i] > 0


\* C14: audioFileToBase64 never raises and returns "" whenever a check
\* fails, the checks being made in this order: the file exists, is
\* readable, has a non-zero size, passes the MP3 format validation (for a
\* .mp3 path), is ready according to ensureFileReady, and yields
\* non-empty data when read.  The first failing check gives the logged
\* error; a non-empty string is returned only after all of them passed.
C14_EncodeNeverRaises ==
  fnOut.op = "encode" =>
    LET v == validateAudioFile(fnIn.file)
        present == v.exists /\ v.readable
        format == fnIn.isMp3 => Mp3Valid(fnIn.file)
        ready == \E ok \in waitForFileReady(fnIn.later) :
                   ensureFileReady(ReadyMode(fnIn.later), fnIn.later, ok)
    IN /\ fnOut.ret \in {"", "data"}
       /\ ~v.exists => fnOut.code = "ENOENT"
       /\ v.exists /\ ~v.readable => fnOut.code = "EACCES"
       /\ present /\ v.size = 0 => fnOut.code = "EMPTY_FILE"
       /\ present /\ v.size > 0 /\ ~format => fnOut.code = "INVALID_MP3"
       /\ present /\ v.size > 0 /\ format /\ ~ready => fnOut.code = "FILE_NOT_READY"
       /\ fnOut.code # "ok" => fnOut.ret = ""
       /\ fnOut.ret = "data" =>
            present /\ v.size > 0 /\ format /\ ready /\ fnOut.code = "ok"

\* C14 witness: a valid MP3 that was removed before ensureFileReady ran
\* gave "", and so did a read that threw after every check had passed
C14_Witness ==
  /\ fnOut.op = "encode" /\ fnOut.ret = ""
  /\ Mp3Valid(fnIn.file) /\ fnIn.isMp3
  /\ fnOut.code \in {"FILE_NOT_READY", "READ_ERROR"}


\* C15: normalizeLipsyncMetadata maps a soundFile ending in .wav, in any
\* letter case, to the same base name with .mp3; leaves a soundFile ending
\* in .mp3 unchanged; returns a track without metadata as it is; and is
\* idempotent on every track.
C15_NormalizeIdempotent ==
  fnOut.op = "normalize" =>
    LET t == fnIn.track
        sf == t.soundFile
        wavEndings == {<<".", x, y, z>> : x \in {"w", "W"}, y \in {"a", "A"}, z \in {"v", "V"}}
    IN /\ t.hasMeta /\ Len(sf) >= 4 /\ Suffix(sf, 4) \in wavEndings =>
            fnOut.once = [t EXCEPT !.soundFile =
                            SubSeq(sf, 1, Len(sf) - 4) \o <<".", "m", "p", "3">>]
       /\ Len(sf) >= 4 /\ Suffix(sf, 4) = <<".", "m", "p", "3">> => fnOut.once = t
       /\ ~t.hasMeta => fnOut.once = t
       /\ fnOut.twice = fnOut.once

\* C15 witness: a soundFile ending in upper-case .WAV after a base name
\* that itself contains .wav was renamed, and renaming again changed
\* nothing
C15_Witness ==
  /\ fnOut.op = "normalize" /\ fnIn.track.hasMeta
  /\ fnIn.track.soundFile = <<"a", ".", "w", "a", "v", ".", "W", "A", "V">>
  /\ fnOut.once.soundFile = <<"a", ".", "w", "a", "v", ".", "m", "p", "3">>
  /\ fnOut.twice = fnOut.once


\* C16: every timing-track file the program has written names a .mp3
\* sound file, never a .wav one: every default track on disk other than
\* one shipped with the installation, if it has metadata, has a soundFile
\* ending in .mp3.
C16_WrittenTracksNameMp3 ==
  \A k \in 1..NDefaults :
    djson[k].exists /\ djson[k] # ShippedTrack /\ djson[k].track.hasMeta =>
      djson[k].track.ext = "mp3"

\* C16 witness: start-up wrote a marked fallback track that names a .wav
C16_Witness ==
  \E k \in 1..NDefaults :
    /\ djson[k].exists /\ djson[k].track.isFallback
    /\ djson[k].track.origin = "enhanced" /\ djson[k].track.ext = "wav"

\* C17: every timing track placed in a /chat answer, canned or built by
\* the message loop, whether read back from disk, synthesized or the
\* default one, has a soundFile that does not end in .wav, even when the
\* stored JSON names a .wav.
C17_ResponsesNeverNameWav ==
  /\ \A i \in 1..Len(cresp) : \A j \in 1..Len(cresp[i].messages) :
       cresp[i].messages[j].lipsync.ext # "wav"
  /\ \A r \in Reqs : \A k \in 1..Len(msgs[r]) : msgs[r][k].lipsync.ext # "wav"

\* C17 witness: a canned message whose stored track names a .wav was
\* answered with that track naming a .mp3
C17_Witness ==
  \E i \in 1..Len(cresp) : \E j \in 1..Len(cresp[i].messages) :
    LET m == cresp[i].messages[j] IN
      /\ djson[m.file].exists /\ djson[m.file].track.ext = "wav"
      /\ m.lipsync = normalizeLipsyncMetadata(djson[m.file].track)
      /\ m.lipsync.ext = "mp3"


\* C18: the cues of createEnhancedFallbackLipSync partition [0, d]: the
\* first cue starts at 0, every later cue starts where the one before it
\* ends, every cue but the last is 0.2 s long, the last is at most 0.2 s
\* long and ends at the duration recorded in the metadata.  Times are in
\* hundredths of a second.
C18_CuesPartition ==
  fnOut.op = "enhanced" =>
    LET c == fnOut.cues
        n == Len(c)
    IN /\ n >= 1
       /\ n = fnOut.track.nCues
       /\ c[1].start = 0
       /\ \A k \in 2..n : c[k].start = c[k - 1].end
       /\ \A k \in 1..(n - 1) : c[k].end - c[k].start = CUE_INTERVAL_MS \div 10
       /\ c[n].end - c[n].start <= CUE_INTERVAL_MS \div 10
       /\ c[n].end = fnOut.duration

\* C18 witness: a hint file of 50000 bytes gives 1.5625 s, recorded as
\* 1.56: eight cues, the last one from 1.40 to 1.56
C18_Witness ==
  /\ fnOut.op = "enhanced" /\ fnIn.file = HintFile(50000)
  /\ Len(fnOut.cues) = 8
  /\ fnOut.cues[8] = [start |-> 140, end |-> 156]
  /\ fnOut.duration = 156

\* C19: every cue of every synthetic track ends strictly after it starts,
\* whatever duration the fallback generators produce.
C19_CuesNotEmpty ==
  fnOut.op \in {"enhanced", "simple"} =>
    \A k \in 1..Len(fnOut.cues) : fnOut.cues[k].end > fnOut.cues[k].start

\* C19 witness: a hint file of 32100 bytes gives 1.003125 s: the sixth
\* cue starts at 1.00 and ends at 1.00
C19_Witness ==
  /\ fnOut.op = "enhanced" /\ fnIn.file = HintFile(32100)
  /\ Len(fnOut.cues) = 6
  /\ fnOut.cues[6] = [start |-> 100, end |-> 100]

\* C20: createEnhancedFallbackLipSync picks the duration by strict
\* precedence: a hint file that exists with a non-zero size gives
\* clamp(size / 32000, 1, 15) s as the file-size estimate; otherwise a
\* non-empty text gives clamp(wordCount / 2.5, 1, 15) s as the word-count
\* estimate; otherwise 1.0 s as the default.  The duration is within
\* [1, 15] s and the recorded source is that of the rule applied.
\* Durations are in ticks of 1/32000 s.
C20_DurationPrecedence ==
  fnOut.op = "enhanced" =>
    LET f == fnIn.file
        text == fnIn.text
    IN /\ IF f.exists /\ f.size > 0
            THEN /\ fnOut.units = Max(MinTicks, Min(MaxTicks, f.size))
                 /\ fnOut.source = "file_size_estimation"
            ELSE IF text.len > 0
              THEN /\ 5 * fnOut.units =
                        Max(5 * MinTicks, Min(5 * MaxTicks, 2 * text.pieces * BYTES_PER_SECOND))
                   /\ fnOut.source = "text_length_estimation"
              ELSE fnOut.units = MinTicks /\ fnOut.source = "default"
       /\ fnOut.units >= MinTicks /\ fnOut.units <= MaxTicks
       /\ fnOut.duration >= 100 /\ fnOut.duration <= 1500
       /\ fnOut.duration = ToFixed2(fnOut.units)
       /\ fnOut.track.durSrc = fnOut.source

\* C20 witness: with both a usable hint file and a non-empty text the
\* file-size estimate was taken
C20_Witness ==
  /\ fnOut.op = "enhanced"
  /\ fnIn.file = HintFile(64000) /\ fnIn.text = TextSentence
  /\ fnOut.source = "file_size_estimation" /\ fnOut.duration = 200


\* C21: every file whose first bytes are 0x49 0x44 0x33, whatever
\* follows, is reported valid by validateMp3FileForProcessing.
C21_Id3AlwaysValid ==
  fnOut.op = "validate" /\ fnIn.bytes.exists /\ fnIn.bytes.read = "ok"
      /\ Len(fnIn.bytes.head) >= 3 /\ SubSeq(fnIn.bytes.head, 1, 3) = <<73, 68, 51>> =>
    fnOut.isValid

\* C21 witness: a readable file of 500 bytes that starts with the ID3
\* signature was rejected as too small to contain audio data
C21_Witness ==
  /\ fnOut.op = "validate" /\ fnIn.bytes.exists /\ fnIn.bytes.read = "ok"
  /\ fnIn.bytes.size = 500 /\ fnIn.bytes.head = <<73, 68, 51>>
  /\ ~fnOut.isValid /\ fnOut.verdict = "no_audio_data"

\* C22: a file smaller than 128 bytes is reported invalid whatever its
\* header, and without being opened; and a valid verdict implies that the
\* file exists (and so is readable) and has a non-zero size.
C22_SmallFilesInvalid ==
  fnOut.op = "validate" =>
    /\ fnIn.bytes.size < MIN_MP3_SIZE => ~fnOut.isValid /\ ~fnOut.opened
    /\ fnOut.isValid => fnIn.bytes.exists /\ fnIn.bytes.size > 0

\* C22 witness: a file of 127 bytes that starts with the ID3 signature
\* was rejected unopened
C22_Witness ==
  /\ fnOut.op = "validate" /\ fnIn.bytes.exists
  /\ fnIn.bytes.size = 127 /\ fnIn.bytes.head = <<73, 68, 51>>
  /\ ~fnOut.isValid /\ ~fnOut.opened


\* C23: an error is retryable exactly when its code is RATE_LIMITED,
\* NETWORK_ERROR or SERVER_ERROR, in every place that reports it: the
\* service's error result, the record logAudioError writes, and
\* isRetryableError / canRetry.
C23_RetryableConsistent ==
  LET Retryable(c) == c \in {"RATE_LIMITED", "NETWORK_ERROR", "SERVER_ERROR"} IN
  /\ fnOut.op = "retry" => fnOut.canRetry = Retryable(fnIn.errorCode)
  /\ fnOut.op = "log" =>
       /\ fnOut.entry.retryable = Retryable(fnOut.entry.code)
       /\ fnIn.error.retryable = Retryable(fnIn.error.errorCode)

\* C23 witness: isRetryableError("SERVER_ERROR") answered false
C23_Witness ==
  fnOut.op = "retry" /\ fnIn.errorCode = "SERVER_ERROR" /\ ~fnOut.canRetry

\* C24: the severity of a log entry depends on the error code only:
\* critical for MISSING_API_KEY, INVALID_API_KEY and QUOTA_EXCEEDED,
\* warning for RATE_LIMITED, NETWORK_ERROR and SERVER_ERROR, error for
\* every other code and for a missing code.
C24_SeverityByCode ==
  fnOut.op = "log" =>
    LET c == fnOut.entry.code
        sev == fnOut.entry.severity IN
    /\ sev \in {"critical", "warning", "error"}
    /\ sev = "critical" <=> c \in {"MISSING_API_KEY", "INVALID_API_KEY", "QUOTA_EXCEEDED"}
    /\ sev = "warning" <=> c \in {"RATE_LIMITED", "NETWORK_ERROR", "SERVER_ERROR"}
    /\ c = "" => sev = "error"

\* C24 witness: a SERVER_ERROR was logged as a warning
C24_Witness ==
  fnOut.op = "log" /\ fnOut.entry.code = "SERVER_ERROR" /\ fnOut.entry.severity = "warning"


\* C25: every message of every /chat answer carries audioMime, on the
\* success path and on every fallback path.
C25_EveryMessageHasMime ==
  \A r \in Reqs : Answered(r) => \A m \in MsgsOf(r) : m.mime # "unset"

\* C25 witness: a request was answered with a message whose synthesis
\* failed, carrying the empty audio and a fallback track but no audioMime
C25_Witness ==
  \E r \in Reqs : Answered(r) /\ \E m \in MsgsOf(r) :
    Failed(m, "synthesis") /\ m.audio = "empty" /\ m.lipsync # NoTrack /\ m.mime = "unset"


\* C26: a message for which synthesis, readiness, validation, transcode,
\* extraction and encoding all succeeded is delivered with non-empty
\* audio of type audio/mpeg and with the track of the extraction tool,
\* which carries no fallback marker and comes from no fallback generator.
C26_HappyPath ==
  \A r \in Reqs : Answered(r) => \A m \in MsgsOf(r) :
    m.fails = <<>> =>
      /\ m.audio = "data" /\ m.mime = "audio/mpeg"
      /\ m.lipsync # NoTrack /\ m.lipsync.origin = "rhubarb" /\ ~m.lipsync.isFallback

\* C26 witness: a message went through every stage once without a
\* failure and was delivered with its audio and a track that carries the
\* fallback marker, written at the same path for another request
C26_Witness ==
  \E r \in Reqs : Answered(r) /\ \E m \in MsgsOf(r) :
    /\ m.fails = <<>> /\ m.calls = [synth |-> 1, ffmpeg |-> 1, rhubarb |-> 1, encode |-> 1]
    /\ m.audio = "data" /\ m.mime = "audio/mpeg"
    /\ m.lipsync.isFallback /\ m.lipsync.src # r


\* C27: a request with an empty user message, or made while the speech
\* key or the key of the chosen text provider is missing, is answered with
\* a non-empty list of canned messages; it does not reach the provider
\* call, after which alone the speech collaborator and the external tools
\* are invoked, and answering it writes no artifact.
C27_CannedWithoutCalls ==
  /\ [](\A k \in 1..Len(cresp) :
          ~cresp[k].userMessage \/ ~cresp[k].elevenLabsApiKey \/ ~cresp[k].requiredKey =>
            /\ cresp[k].kind \in {"intro", "missing_key"}
            /\ Len(cresp[k].messages) > 0)
  /\ [][Len(cresp') > Len(cresp) /\ cresp'[Len(cresp')].kind # "provider" =>
         UNCHANGED <<dwav, djson, mp3, wav, json, pc, svcCalls>>]_vars

\* C27 witness: a request with a user message and the provider's key set
\* but without the speech key was answered with the two canned messages
C27_Witness ==
  \E k \in 1..Len(cresp) :
    /\ cresp[k].userMessage /\ cresp[k].requiredKey /\ ~cresp[k].elevenLabsApiKey
    /\ cresp[k].kind = "missing_key" /\ Len(cresp[k].messages) = 2


\* C28: in the server without lip sync every message of a successful
\* answer has audio set (a string, empty when synthesis or encoding
\* failed) and audioMime set, and has no lipsync field.
C28_LiteMessageShape ==
  fnOut.op = "lite" =>
    LET m == fnOut.message
        a == fnIn.args IN
    /\ m.audio \in {"data", "empty"}
    /\ m.audioMime # "unset"
    /\ m.lipsync = "unset"
    /\ a.from = "provider" /\ a.tts # "success" => m.audio = "empty"
    /\ ~a.file.exists \/ a.file.size = 0 \/ a.read = "throws" => m.audio = "empty"

\* C28 witness: the message of a synthesis that threw was delivered with
\* the empty audio and audioMime set
C28_Witness ==
  /\ fnOut.op = "lite" /\ fnIn.args.from = "provider" /\ fnIn.args.tts = "throws"
  /\ fnOut.message.audio = "empty" /\ fnOut.message.audioMime = "audio/mpeg"


\* C29: for every message, FFmpeg is launched only after
\* validateMp3FileForProcessing accepted the MP3 and the FFmpeg probe
\* succeeded; Rhubarb is launched only after FFmpeg exited with success,
\* its output was found to exist with at least 100 bytes and the Rhubarb
\* probe succeeded; and once the conversion has failed Rhubarb is not
\* launched for the message.
C29_StagePreconditions ==
  /\ [](\A r \in Reqs : \A m \in MsgsOf(r) :
          /\ m.calls.rhubarb > 0 => m.calls.ffmpeg > 0
          /\ Failed(m, "transcode") => m.calls.rhubarb = 0)
  /\ [][\A r \in Reqs :
         LET Entering(l) == pc'[r] = l /\ pc[r] # l
             Launched(stage) ==
               /\ Len(msgs[r]) > idx[r] /\ Len(msgs'[r]) > idx[r]
               /\ msgs'[r][idx[r] + 1].calls[stage] > msgs[r][idx[r] + 1].calls[stage]
             w == validateAudioFile(WavOf(r))
         IN /\ Launched("ffmpeg") => pc[r] = "ls_ffmpeg"
            /\ Entering("ls_ffmpeg") => pc[r] = "ls_ffprobe"
            /\ Entering("ls_ffprobe") => pc[r] = "ls_val" /\ Mp3Valid(Mp3Of(r))
            /\ Launched("rhubarb") => pc[r] = "ls_rhubarb" /\ ~Failed(Cur(r), "transcode")
            /\ Entering("ls_rhubarb") => pc[r] = "ls_prerh"
            /\ Entering("ls_prerh") => pc[r] = "ls_rhprobe"
            /\ Entering("ls_rhprobe") =>
                 pc[r] = "ls_wavval" /\ w.exists /\ w.readable /\ w.size >= MIN_WAV_SIZE
            /\ Entering("ls_wavval") => pc[r] = "ls_ffmpeg" /\ Launched("ffmpeg")]_vars

\* C29 witness: Rhubarb was launched for a message after one FFmpeg run
C29_Witness ==
  \E r \in Reqs : \E m \in MsgsOf(r) :
    m.calls.ffmpeg = 1 /\ m.calls.rhubarb = 1 /\ ~Failed(m, "transcode")


\* C30: the audio of a message is encoded only after lipSyncMessage, and
\* with it the transcode and extraction stages, has finished for that
\* message: while the handler is inside lipSyncMessage for a message,
\* audioFileToBase64 has not been called for it, on the main path and on
\* the path taken when the re-validation succeeds.
C30_EncodeAfterLipSync ==
  \A r \in Reqs :
    pc[r] \in {"ls_val", "ls_ffprobe", "ls_ffmpeg", "ls_wavval", "ls_rhprobe",
               "ls_prerh", "ls_rhubarb", "ls_jsonval", "ls_jsonnorm", "ls_fb"} =>
      Cur(r).calls.encode = 0

\* C30 witness: after a failed first validation and a successful
\* re-validation, FFmpeg was launched for a message whose audio had
\* already been encoded and set
C30_Witness ==
  \E r \in Reqs : \E m \in MsgsOf(r) :
    /\ m.vals = <<FALSE, TRUE>> /\ m.calls.encode = 1 /\ m.audio = "data"
    /\ pc[r] = "ls_wavval" /\ m.calls.ffmpeg = 1


\* C31: ensureFileReady treats a false answer of waitForFileReady as
\* non-fatal: whether the file was absent at first, present but empty, or
\* present with content, success is what the re-validation after the wait
\* finds, whatever the wait answered.
C31_WaitTimeoutNotFatal ==
  fnOut.op = "ready" =>
    LET v == validateAudioFile(fnIn.args.later) IN
    /\ fnOut.mode = "create" => fnOut.success = (v.exists /\ v.readable)
    /\ fnOut.mode = "content" => fnOut.success = (v.size > 0)
    /\ fnOut.mode = "stable" => fnOut.success = (v.exists /\ v.readable /\ v.size > 0)

\* C31 witness: the file was absent at first, the wait answered false, the
\* file is complete at the time of the re-validation, and ensureFileReady
\* reported a failure
C31_Witness ==
  /\ fnOut.op = "ready" /\ fnOut.mode = "create" /\ ~fnIn.args.fileReady
  /\ fnIn.args.later = Mp3Full(0) /\ ~fnOut.success


\* C32: the text recorded in the context of a log entry holds at most the
\* first 100 characters of the source text, whatever its length.
C32_LoggedTextTruncated ==
  fnOut.op = "log" => fnOut.contextText.chars <= TEXT_LOG_LIMIT

\* C32 witness: a text of 5000 characters was logged whole
C32_Witness ==
  fnOut.op = "log" /\ fnIn.textLen = 5000 /\ fnOut.contextText.chars = 5000


\* C33: normalizeLipsyncMetadata leaves its argument unchanged: after the
\* call the input track, metadata.soundFile included, is what it was
\* before, and only the returned track carries the .mp3 name.
C33_NormalizeLeavesArgument ==
  fnOut.op = "normalize" => fnOut.argument = fnIn.track

\* C33 witness: after normalising a track named a.wav the argument itself
\* names a.mp3
C33_Witness ==
  /\ fnOut.op = "normalize" /\ fnIn.track.hasMeta
  /\ fnIn.track.soundFile = <<"a", ".", "w", "a", "v">>
  /\ fnOut.argument.soundFile = <<"a", ".", "m", "p", "3">>
  /\ fnOut.once.soundFile = <<"a", ".", "m", "p", "3">>


\* C34: no stage takes a file left by an earlier response cycle for its
\* own output: the audio and the extraction tool's track delivered for a
\* message were written while that message was processed, also when the
\* speech collaborator or a tool reports success without writing its
\* output.  (Files of an earlier cycle carry src = 0.)
C34_NoStaleArtifacts ==
  \A r \in Reqs : Answered(r) => \A m \in MsgsOf(r) :
    /\ m.audio = "data" => m.asrc # 0
    /\ m.lipsync # NoTrack /\ m.lipsync.origin = "rhubarb" => m.lipsync.src # 0

\* C34 witness: a message was delivered with the audio of an earlier
\* cycle's message_0.mp3 after one call of the speech collaborator
C34_Witness ==
  \E r \in Reqs : Answered(r) /\ \E m \in MsgsOf(r) :
    m.calls.synth = 1 /\ m.audio = "data" /\ m.asrc = 0


\* C35: a message delivered with the track read from the extraction
\* tool's output has non-empty audio and audioMime audio/mpeg; a message
\* delivered with the empty audio carries a synthetic track.
C35_ToolTrackHasAudio ==
  \A r \in Reqs : Answered(r) => \A m \in MsgsOf(r) :
    /\ m.lipsync # NoTrack /\ m.lipsync.origin = "rhubarb" =>
         m.audio = "data" /\ m.mime = "audio/mpeg"
    /\ m.audio = "empty" => m.lipsync # NoTrack /\ m.lipsync.origin # "rhubarb"

\* C35 witness: a message was delivered with the extraction tool's track,
\* its audio and audio/mpeg
C35_Witness ==
  \E r \in Reqs : Answered(r) /\ \E m \in MsgsOf(r) :
    /\ m.lipsync # NoTrack /\ m.lipsync.origin = "rhubarb" /\ m.calls.rhubarb = 1
    /\ m.audio = "data" /\ m.mime = "audio/mpeg"


\* C36: getAvailableVoices never raises; it answers from the cache,
\* without contacting the API, exactly while a validation has succeeded,
\* the cache is non-empty and the last refresh is less than 5 minutes
\* old; otherwise it fetches, and when the fetch fails it returns the list
\* cached before.  A failed validateCredentials leaves the cache, the
\* refresh time and the validated flag as they were.
C36_VoicesCache ==
  /\ voiceOut.op = "get" =>
       LET b == voiceOut.before
           fresh == /\ b.isValidated /\ Len(b.availableVoices) > 0
                    /\ b.now - b.lastValidationTime < CACHE_MINUTES
       IN /\ ~voiceOut.raised
          /\ voiceOut.contacted <=> ~fresh
          /\ fresh => voiceOut.returned = b.availableVoices
          /\ ~fresh /\ voiceOut.api.t = "throw" => voiceOut.returned = b.availableVoices
  /\ voiceOut.op = "validate" /\ ~voiceOut.isValid =>
       /\ voiceSvc.availableVoices = voiceOut.before.availableVoices
       /\ voiceSvc.lastValidationTime = voiceOut.before.lastValidationTime
       /\ voiceSvc.isValidated = voiceOut.before.isValidated

\* C36 witness: more than five minutes after a validation, a fetch threw
\* and the list cached by the validation was returned
C36_Witness ==
  /\ voiceOut.op = "get" /\ voiceOut.contacted /\ voiceOut.api.t = "throw"
  /\ voiceOut.before.isValidated
  /\ voiceOut.before.now - voiceOut.before.lastValidationTime >= CACHE_MINUTES
  /\ voiceOut.returned = <<"v1", "v2">> /\ ~voiceOut.raised

\* C37: performAudioHealthCheck reports overallStatus "healthy" whenever
\* the ElevenLabs full validation is valid and the audio directory is
\* writable, and GET /health then reports status "healthy" when the key
\* is set, its own validation is valid and a text provider is configured.
C37_HealthyWhenAllPass ==
  fnOut.op = "health" =>
    LET a == fnIn.args IN
      /\ (a.second = "valid" /\ a.writable
            => fnOut.check.overallStatus = "healthy")
      /\ (a.hasKey /\ a.first = "valid" /\ a.second = "valid" /\ a.writable
            /\ a.configured # {}
            => fnOut.health.status = "healthy")

\* every tested service passes and a provider is configured, yet the
\* untested ffmpeg entry keeps the check and the endpoint degraded
C37_Witness ==
  /\ fnOut.op = "health"
  /\ fnIn.args.hasKey /\ fnIn.args.first = "valid" /\ fnIn.args.second = "valid"
  /\ fnIn.args.writable /\ fnIn.args.configured # {}
  /\ fnOut.check.services["elevenlabs"] = "healthy"
  /\ fnOut.check.services["filesystem"] = "healthy"
  /\ fnOut.check.services["ffmpeg"] = "unknown"
  /\ fnOut.check.overallStatus = "degraded"
  /\ fnOut.health.status = "degraded"
  /\ fnOut.health.httpStatus = 200

\* how often msg occurs in the list arr
Occurrences(arr, msg) == Cardinality({k \in 1..Len(arr) : arr[k] = msg})

\* the last n elements of arr
LastOf(arr, n) == SubSeq(arr, Len(arr) - n + 1, Len(arr))

\* C38: the message list sent to the text provider for a chat turn holds
\* the turn's user message exactly once, the stored history holds it
\* exactly once, and after a provider success the history holds the
\* turn's assistant message exactly once.
C38_UserMessageSentOnce ==
  /\ sessOut.kind = "sent" =>
       LET userMessage == [role |-> "user", turn |-> sessOut.turn] IN
         /\ Occurrences(sessOut.messages, userMessage) = 1
         /\ Occurrences(sessHist[sessOut.session], userMessage) = 1
  /\ sessOut.kind = "reply" =>
       Occurrences(sessHist[sessOut.session],
                   [role |-> "assistant", turn |-> sessOut.turn]) = 1

\* a turn on a history that holds earlier turns: the stored history has
\* the user message once, the list for the provider has it twice, at its
\* last two places
C38_Witness ==
  /\ sessOut.kind = "sent" /\ ~sessOut.shouldReset
  /\ Len(sessOut.before) > 1
  /\ LET userMessage == [role |-> "user", turn |-> sessOut.turn]
         n == Len(sessOut.messages) IN
       /\ Occurrences(sessHist[sessOut.session], userMessage) = 1
       /\ Occurrences(sessOut.messages, userMessage) = 2
       /\ sessOut.messages[n] = userMessage
       /\ sessOut.messages[n - 1] = userMessage

\* C39: every stored history starts with the system prompt, holds no
\* other system message and at most 20 further messages; a step that
\* changes a stored history appends one message and then either removes
\* nothing or removes the oldest non-system messages so that the 15
\* most recent ones remain.
C39_HistoryBounded ==
  /\ [](\A sessionId \in Sessions :
          sessHist[sessionId] # <<>> =>
            /\ Head(sessHist[sessionId]) = SystemPrompt
            /\ \A k \in 2..Len(sessHist[sessionId]) :
                 sessHist[sessionId][k].role # "system"
            /\ Len(sessHist[sessionId]) - 1 <= MAX_MESSAGES_PER_SESSION)
  /\ [][\A sessionId \in Sessions :
          (/\ sessHist[sessionId] # <<>> /\ sessHist'[sessionId] # <<>>
           /\ sessHist'[sessionId] # sessHist[sessionId]) =>
            LET new == sessHist'[sessionId]
                all == Append(Tail(sessHist[sessionId]), new[Len(new)])
            IN \/ Tail(new) = all
               \/ /\ Len(all) > MAX_CONTEXT_MESSAGES
                  /\ Tail(new) = LastOf(all, MAX_CONTEXT_MESSAGES)]_vars

\* a push that found 20 messages after the system prompt and left 15
C39_Witness ==
  /\ sessOut.kind \in {"sent", "reply"}
  /\ Len(sessOut.before) - 1 = MAX_MESSAGES_PER_SESSION
  /\ Len(sessHist[sessOut.session]) - 1 = MAX_CONTEXT_MESSAGES
  /\ Head(sessHist[sessOut.session]) = SystemPrompt
  /\ sessHist[sessOut.session][2] = sessOut.before[8]

\* C40: in a session that keeps receiving chat messages,
\* checkSessionLimits eventually returns shouldReset = true, whatever
\* provider calls fail in between.
C40_ResetEventuallySuggested ==
  <>(sessOut.kind = "sent" /\ sessOut.shouldReset)

\* an answer whose turn began with 19 stored messages: the user message
\* made 20, the assistant message 21, and the trim left 15 without the
\* limit having been seen
C40_Witness ==
  /\ sessOut.kind = "reply" /\ ~sessOut.resetSuggested
  /\ Len(sessOut.before) - 1 = MAX_MESSAGES_PER_SESSION
  /\ Len(sessHist[sessOut.session]) - 1 = MAX_CONTEXT_MESSAGES
====
